---- MODULE Spec2Model ----
(***************************************************************************)
(* Verification model of the OCR bill pipeline of the Skanda credit        *)
(* management application: the EasyOCR reader singleton                    *)
(* (app.py extract_text_from_image), the field extractor (ocr_utils.py),   *)
(* the vendor matcher (vendor_ocr_utils.py), the discrepancy reconciler    *)
(* (compare_bill_data, detect_ocr_mismatches) and the bill verification    *)
(* workflow (upload_ocr_bill, verify_ocr_bill, verify_bill_by_id,          *)
(* verify_bill, verify_ocr_bill_final, create_manual_handbill).            *)
(*                                                                         *)
(* Text is a sequence of one-character strings.  An optional value         *)
(* (Python None or a value) is a sequence of length 0 or 1.  An amount is  *)
(* a number of hundredths of a currency unit (paise).  A date is a triple  *)
(* <<year, month, day>>.                                                   *)
(***************************************************************************)
EXTENDS Integers, Sequences, FiniteSets, TLC

\* ------------------------------------------------------------------------
\* Optional values
\* ------------------------------------------------------------------------
None == <<>>

Some(v) == <<v>>

\* Python truthiness of an optional string: None and '' are falsy.
TruthyStr(o) == o # None /\ o[1] # <<>>

\* Python truthiness of an optional number: None and 0 are falsy.
TruthyNum(o) == o # None /\ o[1] # 0

\* Body applied to a value computed once.
With(value, Body(_)) == Body(value)

\* ------------------------------------------------------------------------
\* Characters and the str methods the code uses
\* ------------------------------------------------------------------------
LowerLetters == <<"a","b","c","d","e","f","g","h","i","j","k","l","m","n","o","p","q","r","s","t","u","v","w","x","y","z">>

UpperLetters == <<"A","B","C","D","E","F","G","H","I","J","K","L","M","N","O","P","Q","R","S","T","U","V","W","X","Y","Z">>

DigitChars == <<"0","1","2","3","4","5","6","7","8","9">>

Range(f) == {f[i] : i \in DOMAIN f}

Lowers == Range(LowerLetters)

Uppers == Range(UpperLetters)

Digits == Range(DigitChars)

Alphas == Lowers \cup Uppers

\* The characters of Python's \s and of str.strip() that occur in OCR text.
WS == {" ", "\t", "\n", "\r"}

IndexIn(seq, c) == CHOOSE i \in DOMAIN seq : seq[i] = c

ToUpperChar(c) == IF c \in Lowers THEN UpperLetters[IndexIn(LowerLetters, c)] ELSE c

ToLowerChar(c) == IF c \in Uppers THEN LowerLetters[IndexIn(UpperLetters, c)] ELSE c

\* str.upper()
Upper(s) == [i \in 1..Len(s) |-> ToUpperChar(s[i])]

\* str.lower()
Lower(s) == [i \in 1..Len(s) |-> ToLowerChar(s[i])]

Min(a, b) == IF a < b THEN a ELSE b

Max(a, b) == IF a > b THEN a ELSE b

Abs(a) == IF a < 0 THEN -a ELSE a

\* The least element of a non-empty set of integers.
SetMin(S) == CHOOSE x \in S : \A y \in S : x <= y

\* s[i:] with a 1-based start.
From(s, i) == SubSeq(s, i, Len(s))

\* s[:n]
Take(s, n) == SubSeq(s, 1, Min(n, Len(s)))

\* str.strip(chars)
StripChars(s, C) ==
  LET keep == {i \in 1..Len(s) : s[i] \notin C}
  IN IF keep = {} THEN <<>>
     ELSE SubSeq(s, CHOOSE i \in keep : \A j \in keep : i <= j,
                    CHOOSE i \in keep : \A j \in keep : i >= j)

\* str.strip()
Strip(s) == StripChars(s, WS)

\* The literal lit occurs in s at position i.
StartsWithAt(s, i, lit) ==
  /\ i >= 1
  /\ i + Len(lit) - 1 <= Len(s)
  /\ SubSeq(s, i, i + Len(lit) - 1) = lit

\* sub in s
Contains(s, sub) == \E i \in 1..(Len(s) + 1) : StartsWithAt(s, i, sub)

\* The first position of sub in s (str.find, 1-based; 0 when absent).
Find(s, sub) ==
  LET hits == {i \in 1..(Len(s) + 1) : StartsWithAt(s, i, sub)}
  IN IF hits = {} THEN 0 ELSE SetMin(hits)

RECURSIVE SplitOn(_, _)
\* str.split(sep) for a one-character separator: the pieces, empty ones kept.
SplitOn(s, sep) ==
  LET p == Find(s, <<sep>>)
  IN IF p = 0 THEN <<s>>
     ELSE <<SubSeq(s, 1, p - 1)>> \o SplitOn(From(s, p + 1), sep)

\* text.split('\n')
SplitLines(s) == SplitOn(s, "\n")

\* str.replace(c, '') for a one-character c
RemoveChar(s, c) == SelectSeq(s, LAMBDA x : x # c)

\* any(c.isalpha() for c in s)
AnyAlpha(s) == \E i \in 1..Len(s) : s[i] \in Alphas

\* ------------------------------------------------------------------------
\* Regular-expression steps
\* ------------------------------------------------------------------------
\* The position after the longest run of characters of C starting at i,
\* at most max characters long (a greedy C{0,max}).
RunEndMax(s, i, C, max) ==
  SetMin({j \in i..Min(Len(s) + 1, i + max) :
            j = Len(s) + 1 \/ j = i + max \/ s[j] \notin C})

\* The position after the longest run of characters of C starting at i (C*).
RunEnd(s, i, C) == RunEndMax(s, i, C, Len(s) + 1)

RECURSIVE DigitsValue(_)
\* int(s) for a string of decimal digits ('' gives 0).
DigitsValue(s) ==
  IF s = <<>> THEN 0
  ELSE 10 * DigitsValue(SubSeq(s, 1, Len(s) - 1)) + (IndexIn(DigitChars, s[Len(s)]) - 1)

\* float(s) for s matching \d+\.?\d* with at most two fraction digits, in
\* hundredths: '500.00' is 50000, '5.' is 500, '12.5' is 1250.
FloatValue(s) ==
  LET p == Find(s, <<".">>)
      whole == IF p = 0 THEN s ELSE SubSeq(s, 1, p - 1)
      frac == IF p = 0 THEN <<>> ELSE Take(From(s, p + 1), 2)
      frac2 == IF Len(frac) = 1 THEN frac \o <<"0">> ELSE frac
  IN 100 * DigitsValue(whole) + DigitsValue(frac2)

\* ------------------------------------------------------------------------
\* ocr_utils.parse_bill_number
\* ------------------------------------------------------------------------
NoMatch == [ok |-> FALSE, stop |-> 0, cap |-> <<>>]

Matched(stop, cap) == [ok |-> TRUE, stop |-> stop, cap |-> cap]

\* [A-Z0-9\-/] under re.IGNORECASE
BillNoClass == Alphas \cup Digits \cup {"-", "/"}

\* \w
WordChars == Alphas \cup Digits \cup {"_"}

\* The first index of alts (tried in order, as the regex alternation is)
\* for which ok(alt) holds; 0 when none.
FirstAlt(alts, ok(_)) ==
  LET hits == {a \in DOMAIN alts : ok(alts[a])}
  IN IF hits = {} THEN 0 ELSE SetMin(hits)

\* A capture ([class]+) at k: the greedy run, which must not be empty.
CaptureRun(s, k, C) ==
  LET e == RunEnd(s, k, C)
  IN IF e > k THEN Matched(e, SubSeq(s, k, e - 1)) ELSE NoMatch

\* lit \s* (?:alt1|alt2|...) [\s:]* ([A-Z0-9\-/]+) matched at position i.
LabeledAt(s, i, lit, alts) ==
  IF ~StartsWithAt(s, i, lit) THEN NoMatch
  ELSE LET j == RunEnd(s, i + Len(lit), WS)
           try(alt) == IF StartsWithAt(s, j, alt)
                       THEN CaptureRun(s, RunEnd(s, j + Len(alt), WS \cup {":"}), BillNoClass)
                       ELSE NoMatch
           a == FirstAlt(alts, LAMBDA alt : try(alt).ok)
       IN IF a = 0 THEN NoMatch ELSE try(alts[a])

\* lit [sep]+ ([A-Z0-9\-/]+) matched at position i.
SeparatedAt(s, i, lit, sep) ==
  IF ~StartsWithAt(s, i, lit) THEN NoMatch
  ELSE LET k == RunEnd(s, i + Len(lit), sep)
       IN IF k > i + Len(lit) THEN CaptureRun(s, k, BillNoClass) ELSE NoMatch

\* \b([A-Z]{1,5}[-/]?\d{2,10})\b under re.IGNORECASE, matched at position i.
StandaloneAt(s, i) ==
  LET a == RunEnd(s, i, Alphas)
      b == IF a <= Len(s) /\ s[a] \in {"-", "/"} THEN a + 1 ELSE a
      e == RunEnd(s, b, Digits)
  IN IF /\ (i = 1 \/ s[i - 1] \notin WordChars)
        /\ a - i >= 1 /\ a - i <= 5
        /\ e - b >= 2 /\ e - b <= 10
        /\ (e = Len(s) + 1 \/ s[e] \notin WordChars)
     THEN Matched(e, SubSeq(s, i, e - 1))
     ELSE NoMatch

\* re.search: the match at the leftmost position where at(i) matches.
Search(s, at(_)) ==
  LET hits == {i \in 1..Len(s) : at(i).ok}
  IN IF hits = {} THEN NoMatch ELSE at(SetMin(hits))

NumberAlts == << <<"n","u","m","b","e","r">>, <<"n","o">>, <<"#">>, <<"n","u","m">> >>

\* The five labelled patterns, in the order of the list `patterns`.
BillPattern(s, n, i) ==
  CASE n = 1 -> LabeledAt(s, i, <<"b","i","l","l">>, NumberAlts)
    [] n = 2 -> LabeledAt(s, i, <<"i","n","v","o","i","c","e">>, NumberAlts)
    [] n = 3 -> SeparatedAt(s, i, <<"b","i","l","l">>, WS \cup {":"})
    [] n = 4 -> SeparatedAt(s, i, <<"i","n","v","o","i","c","e">>, WS \cup {":"})
    [] n = 5 -> SeparatedAt(s, i, <<"n","o">>, WS \cup {".", ":"})

parse_bill_number(text) ==
  LET text_lower == Lower(text)
      hit(n) == Search(text_lower, LAMBDA i : BillPattern(text_lower, n, i))
      first == FirstAlt(<<1, 2, 3, 4, 5>>, LAMBDA n : hit(n).ok)
      standalone == Search(text, LAMBDA i : StandaloneAt(text, i))
  IN IF first # 0 THEN Some(Upper(Strip(hit(first).cap)))
     ELSE IF standalone.ok THEN Some(Upper(Strip(standalone.cap)))
     ELSE None

\* ------------------------------------------------------------------------
\* ocr_utils.parse_amount
\* ------------------------------------------------------------------------
\* [₹rs\.] on the lower-cased text
RupeeClass == {"₹", "r", "s", "."}

\* A keyword whose parts are joined by \s* (grand\s*total): the position
\* after it when it matches at i, else 0.
KeywordAt(s, i, parts) ==
  IF Len(parts) = 1
  THEN IF StartsWithAt(s, i, parts[1]) THEN i + Len(parts[1]) ELSE 0
  ELSE IF StartsWithAt(s, i, parts[1])
       THEN LET j == RunEnd(s, i + Len(parts[1]), WS)
            IN IF StartsWithAt(s, j, parts[2]) THEN j + Len(parts[2]) ELSE 0
       ELSE 0

\* (\d+\.?\d*) at k
NumberAt(s, k) ==
  LET d == RunEnd(s, k, Digits)
      e == IF d <= Len(s) /\ s[d] = "." THEN RunEnd(s, d + 1, Digits) ELSE d
  IN IF d > k THEN Matched(e, SubSeq(s, k, e - 1)) ELSE NoMatch

W_total == <<"t","o","t","a","l">>

W_amount == <<"a","m","o","u","n","t">>

W_grand == <<"g","r","a","n","d">>

W_payable == <<"p","a","y","a","b","l","e">>

W_due == <<"d","u","e">>

W_final == <<"f","i","n","a","l">>

\* (?:total|amount|grand\s*total|payable|amount\s*due)
LeadKeywords == << <<W_total>>, <<W_amount>>, <<W_grand, W_total>>, <<W_payable>>, <<W_amount, W_due>> >>

\* (?:total|amount|grand\s*total|payable)
TrailKeywords == << <<W_total>>, <<W_amount>>, <<W_grand, W_total>>, <<W_payable>> >>

\* [\s:]*[₹rs\.]*\s*(\d+\.?\d*) at j
LabelledNumberAt(s, j) ==
  NumberAt(s, RunEnd(s, RunEnd(s, RunEnd(s, j, WS \cup {":"}), RupeeClass), WS))

\* keyword [\s:]*[₹rs\.]*\s*(\d+\.?\d*) at i, for the keywords in order
LeadAt(s, i, keywords) ==
  LET try(kw) == IF KeywordAt(s, i, kw) # 0
                 THEN LabelledNumberAt(s, KeywordAt(s, i, kw))
                 ELSE NoMatch
      a == FirstAlt(keywords, LAMBDA kw : try(kw).ok)
  IN IF a = 0 THEN NoMatch ELSE try(keywords[a])

\* [₹rs\.]*\s*(\d+\.?\d*)\s*(?:total|amount|grand\s*total|payable) at i
TrailAt(s, i) ==
  LET num == NumberAt(s, RunEnd(s, RunEnd(s, i, RupeeClass), WS))
      j == RunEnd(s, num.stop, WS)
      a == FirstAlt(TrailKeywords, LAMBDA kw : KeywordAt(s, j, kw) # 0)
  IN IF num.ok /\ a # 0
     THEN Matched(KeywordAt(s, j, TrailKeywords[a]), num.cap)
     ELSE NoMatch

\* [₹$]?\s*(\d{1,10}(?:\.\d{2})?) at i
CurrencyAt(s, i) ==
  LET c == IF i <= Len(s) /\ s[i] \in {"₹", "$"} THEN i + 1 ELSE i
      w == RunEnd(s, c, WS)
      d == RunEndMax(s, w, Digits, 10)
      e == IF /\ d + 2 <= Len(s)
              /\ s[d] = "."
              /\ s[d + 1] \in Digits
              /\ s[d + 2] \in Digits
           THEN d + 3 ELSE d
  IN IF d > w THEN Matched(e, SubSeq(s, w, e - 1)) ELSE NoMatch

RECURSIVE FindIterFrom(_, _, _)
\* re.finditer from position pos, hits being the positions where the
\* pattern matches: the captures of the non-overlapping matches, left to
\* right.
FindIterFrom(hits, at(_), pos) ==
  LET rest == {i \in hits : i >= pos}
  IN IF rest = {} THEN <<>>
     ELSE LET i == SetMin(rest)
              m == at(i)
          IN <<m.cap>> \o FindIterFrom(hits, at, Max(m.stop, i + 1))

FindIter(s, at(_)) == FindIterFrom({i \in 1..Len(s) : at(i).ok}, at, 1)

\* The three labelled patterns, in the order of the list `patterns`.
AmountPattern(s, n, i) ==
  CASE n = 1 -> LeadAt(s, i, LeadKeywords)
    [] n = 2 -> TrailAt(s, i)
    [] n = 3 -> LeadAt(s, i, << <<W_final, W_amount>> >>)

\* A variant of SeqMax that takes the candidate collected last.
SeqLast(vals) == vals[Len(vals)]

SeqMax(vals) == CHOOSE v \in Range(vals) : \A w \in Range(vals) : w <= v

MapSeq(seq, f(_)) == [i \in 1..Len(seq) |-> f(seq[i])]

parse_amount(text) ==
  LET text_clean == RemoveChar(text, ",")
      text_lower == Lower(text_clean)
      labelled(n) == MapSeq(FindIter(text_lower, LAMBDA i : AmountPattern(text_lower, n, i)), FloatValue)
      currency == MapSeq(FindIter(text_clean, LAMBDA i : CurrencyAt(text_clean, i)), FloatValue)
      amounts_found == labelled(1) \o labelled(2) \o labelled(3)
                         \o SelectSeq(currency, LAMBDA amount : amount > 0)
  IN IF amounts_found # <<>> THEN Some(SeqMax(amounts_found)) ELSE None

\* ------------------------------------------------------------------------
\* ocr_utils.parse_date
\* ------------------------------------------------------------------------
DateSeps == {"/", "-"}

AllDigits(s, i, n) == i + n - 1 <= Len(s) /\ \A k \in i..(i + n - 1) : s[k] \in Digits

SepAt(s, i) == i <= Len(s) /\ s[i] \in DateSeps

\* (\d{1,2})[/-](\d{1,2})[/-](\d{2,4}) at i.  The first two groups are
\* greedy and give a digit back when the rest cannot match otherwise.
DayFirstAt(s, i) ==
  LET ok(n) ==
        /\ AllDigits(s, i, n[1]) /\ SepAt(s, i + n[1])
        /\ AllDigits(s, i + n[1] + 1, n[2]) /\ SepAt(s, i + n[1] + 1 + n[2])
        /\ AllDigits(s, i + n[1] + n[2] + 2, 2)
      a == FirstAlt(<< <<2, 2>>, <<2, 1>>, <<1, 2>>, <<1, 1>> >>, ok)
  IN IF a = 0 THEN NoMatch
     ELSE LET n == << <<2, 2>>, <<2, 1>>, <<1, 2>>, <<1, 1>> >>[a]
              y == i + n[1] + n[2] + 2
              e == RunEndMax(s, y, Digits, 4)
          IN Matched(e, <<SubSeq(s, i, i + n[1] - 1),
                          SubSeq(s, i + n[1] + 1, i + n[1] + n[2]),
                          SubSeq(s, y, e - 1)>>)

\* (\d{4})[/-](\d{1,2})[/-](\d{1,2}) at i
YearFirstAt(s, i) ==
  LET ok(n) ==
        /\ AllDigits(s, i, 4) /\ SepAt(s, i + 4)
        /\ AllDigits(s, i + 5, n) /\ SepAt(s, i + 5 + n)
        /\ AllDigits(s, i + 6 + n, 1)
      a == FirstAlt(<<2, 1>>, ok)
  IN IF a = 0 THEN NoMatch
     ELSE LET n == <<2, 1>>[a]
              e == RunEndMax(s, i + 6 + n, Digits, 2)
          IN Matched(e, <<SubSeq(s, i, i + 3),
                          SubSeq(s, i + 5, i + 4 + n),
                          SubSeq(s, i + 6 + n, e - 1)>>)

\* date[\s:]*(\d{1,2})[/-](\d{1,2})[/-](\d{2,4}) at i, under re.IGNORECASE
LabelledDateAt(s, i) ==
  IF StartsWithAt(Lower(s), i, <<"d","a","t","e">>)
  THEN DayFirstAt(s, RunEnd(s, i + 4, WS \cup {":"}))
  ELSE NoMatch

\* The patterns of date_patterns that have three groups, in list order.  The
\* fourth pattern (DD Month YYYY) has two groups, so the loop body does
\* nothing for its matches.
DatePattern(s, n, i) ==
  CASE n = 1 -> DayFirstAt(s, i)
    [] n = 2 -> YearFirstAt(s, i)
    [] n = 3 -> LabelledDateAt(s, i)

IsLeap(y) == (y % 4 = 0 /\ y % 100 # 0) \/ y % 400 = 0

DaysInMonth(y, m) ==
  IF m = 2 THEN (IF IsLeap(y) THEN 29 ELSE 28)
  ELSE IF m \in {4, 6, 9, 11} THEN 30 ELSE 31

\* datetime(year, month, day) does not raise ValueError.
ValidDate(dt) ==
  /\ dt[1] >= 1 /\ dt[1] <= 9999
  /\ dt[2] >= 1 /\ dt[2] <= 12
  /\ dt[3] >= 1 /\ dt[3] <= DaysInMonth(dt[1], dt[2])

\* groups (d, m, y) to <<year, month, day>>, two-digit years in 2000-2099
GroupsToDate(g) ==
  LET year == DigitsValue(g[3])
  IN <<IF year < 100 THEN year + 2000 ELSE year, DigitsValue(g[2]), DigitsValue(g[1])>>

parse_date(text) ==
  LET found(n) == MapSeq(FindIter(text, LAMBDA i : DatePattern(text, n, i)), GroupsToDate)
      dates == SelectSeq(found(1) \o found(2) \o found(3), ValidDate)
  IN IF dates # <<>> THEN Some(dates[1]) ELSE None

\* ------------------------------------------------------------------------
\* ocr_utils.parse_vendor_name, parse_bill_data
\* ------------------------------------------------------------------------
\* The first element of opts that is not None; None when there is none.
FirstSome(opts) ==
  LET hits == SelectSeq(opts, LAMBDA o : o # None)
  IN IF hits # <<>> THEN hits[1] ELSE None

SkipWords == << <<"b","i","l","l">>, <<"i","n","v","o","i","c","e">>, <<"t","a","x">>, <<"g","s","t">>, <<"d","a","t","e">>, <<"a","m","o","u","n","t">> >>

CompanyIndicators == << <<"L","t","d">>, <<"L","i","m","i","t","e","d">>, <<"P","v","t">>, <<"P","v","t",".">>, <<"C","o","r","p">>, <<"C","o","r","p","o","r","a","t","i","o","n">>, <<"I","n","c">> >>

\* The value one iteration of the loop over lines[:10] returns, None when
\* the iteration falls through to the next line.  existing_vendors is a
\* sequence of Vendor rows (empty for None).
VendorNameOfLine(line, existing_vendors) ==
  LET line_clean == Strip(line)
      known == SelectSeq(existing_vendors,
                         LAMBDA vendor : Contains(Lower(line_clean), Lower(vendor.name)))
  IN IF \E k \in DOMAIN SkipWords : Contains(Lower(line_clean), SkipWords[k]) THEN None
     ELSE IF \E k \in DOMAIN CompanyIndicators : Contains(line_clean, CompanyIndicators[k])
            THEN Some(line_clean)
     ELSE IF Len(line_clean) > 5 /\ line_clean[1] \notin Digits
            THEN IF known # <<>> THEN Some(known[1].name)
                 ELSE IF \A k \in 1..Min(50, Len(line_clean)) :
                           line_clean[k] \in Alphas \cup WS \cup {"&"}
                        THEN Some(Take(line_clean, 100))
                 ELSE None
     ELSE None

parse_vendor_name(text, existing_vendors) ==
  FirstSome(MapSeq(Take(SplitLines(text), 10),
                   LAMBDA line : VendorNameOfLine(line, existing_vendors)))

parse_bill_data(text, existing_vendors) ==
  [bill_number |-> parse_bill_number(text),
   amount      |-> parse_amount(text),
   date        |-> parse_date(text),
   vendor_name |-> parse_vendor_name(text, existing_vendors)]

\* ------------------------------------------------------------------------
\* Discrepancy reconciler: ocr_utils.compare_bill_data
\* ------------------------------------------------------------------------
\* A hundredths amount that a binary double holds exactly.
ExactDouble(a) == a % 25 = 0

\* A variant of DiffExceeds that allows 5 currency units whatever the
\* tolerance handed to it.
DiffExceedsFive(a, b, tol, rounds_up) == Abs(a - b) > 500

\* abs(a - b) > tol in double arithmetic, for amounts and a tolerance given
\* in hundredths.  When the decimal difference equals the tolerance and the
\* operands are not exact doubles, the comparison depends on their rounding
\* (1.01 - 1.0 > 0.01 holds, 0.06 - 0.05 > 0.01 does not): rounds_up is
\* that outcome.
DiffExceeds(a, b, tol, rounds_up) ==
  IF Abs(a - b) # tol THEN Abs(a - b) > tol
  ELSE ~(ExactDouble(a) /\ ExactDouble(b)) /\ rounds_up

\* 0.01 currency units ("more than 1 paisa difference"), in hundredths.
StrictTolerance == 1

\* A variant of compare_bill_data that reports a discrepancy without
\* listing one.
CompareAlwaysFlags(stored_data, ocr_data, rounds_up) ==
  [has_discrepancy |-> TRUE, discrepancies |-> <<>>]

\* stored_data and ocr_data are records of optional bill_number, amount and
\* date.
compare_bill_data(stored_data, ocr_data, rounds_up) ==
  LET bill_number ==
        IF /\ TruthyStr(stored_data.bill_number) /\ TruthyStr(ocr_data.bill_number)
           /\ stored_data.bill_number[1] # ocr_data.bill_number[1]
        THEN << [field |-> "bill_number",
                 stored |-> stored_data.bill_number[1],
                 ocr |-> ocr_data.bill_number[1]] >>
        ELSE <<>>
      amount ==
        IF /\ TruthyNum(stored_data.amount) /\ TruthyNum(ocr_data.amount)
           /\ DiffExceeds(stored_data.amount[1], ocr_data.amount[1], StrictTolerance, rounds_up)
        THEN << [field |-> "amount",
                 stored |-> stored_data.amount[1],
                 ocr |-> ocr_data.amount[1],
                 difference |-> Abs(stored_data.amount[1] - ocr_data.amount[1])] >>
        ELSE <<>>
      date ==
        IF /\ stored_data.date # None /\ ocr_data.date # None
           /\ stored_data.date[1] # ocr_data.date[1]
        THEN << [field |-> "date",
                 stored |-> stored_data.date[1],
                 ocr |-> ocr_data.date[1]] >>
        ELSE <<>>
      discrepancies == bill_number \o amount \o date
  IN [has_discrepancy |-> Len(discrepancies) > 0,
      discrepancies   |-> discrepancies]

\* ------------------------------------------------------------------------
\* Similarity scores (rapidfuzz.fuzz), held as exact fractions num/den
\* ------------------------------------------------------------------------
RECURSIVE Gcd(_, _)
Gcd(a, b) == IF b = 0 THEN a ELSE Gcd(b, a % b)

\* The score num/den in lowest terms.
Frac(num, den) == [num |-> num \div Gcd(num, den), den |-> den \div Gcd(num, den)]

ScoreOf(n) == [num |-> n, den |-> 1]

ScoreGT(x, y) == x.num * y.den > y.num * x.den

ScoreGE(x, y) == x.num * y.den >= y.num * x.den

SetMax(S) == CHOOSE x \in S : \A y \in S : x >= y

\* One row of the longest-common-subsequence table: prev is the row above
\* (index j + 1 holds column j) and c the character of this row.  Column j
\* is the best of leaving c out and of pairing c with an equal b[k], k <= j.
LcsRow(prev, c, b) ==
  <<0>> \o [j \in 1..Len(b) |->
             SetMax({prev[j + 1]} \cup {prev[k] + 1 : k \in {k \in 1..j : b[k] = c}})]

RECURSIVE LcsRows(_, _, _, _)
LcsRows(a, b, i, prev) ==
  IF i > Len(a) THEN prev[Len(b) + 1]
  ELSE LET row == LcsRow(prev, a[i], b)
       IN IF Len(row) = Len(b) + 1 THEN LcsRows(a, b, i + 1, row) ELSE 0

\* The length of the longest common subsequence of a and b.
Lcs(a, b) == LcsRows(a, b, 1, [j \in 1..(Len(b) + 1) |-> 0])

\* fuzz.ratio: the normalized Indel similarity, 100 * 2 * lcs / (len1 + len2).
ratio(s1, s2) ==
  IF Len(s1) + Len(s2) = 0 THEN ScoreOf(100)
  ELSE Frac(200 * Lcs(s1, s2), Len(s1) + Len(s2))

\* The characters in code-point order, for sorted().
CharOrder == <<"\t", "\n", "\r", " ", "#", "$", "&", "(", ")", "*", "+", ",", "-", ".", "/">> \o DigitChars \o <<":", ";", "=", "?", "@">> \o UpperLetters \o <<"_">> \o LowerLetters \o <<"₹">>

\* a < b for strings, as Python compares them.
StrLess(a, b) ==
  \E k \in 1..(Len(b)) :
    /\ \A j \in 1..(k - 1) : j <= Len(a) /\ a[j] = b[j]
    /\ (k > Len(a) \/ (k <= Len(a) /\ IndexIn(CharOrder, a[k]) < IndexIn(CharOrder, b[k])))

RECURSIVE SplitWs(_)
\* str.split(): the maximal runs of non-whitespace characters.
SplitWs(s) ==
  LET i == RunEnd(s, 1, WS)
      j == IF i > Len(s) THEN i
           ELSE CHOOSE j \in (i + 1)..(Len(s) + 1) :
                  /\ \A k \in i..(j - 1) : s[k] \notin WS
                  /\ (j = Len(s) + 1 \/ s[j] \in WS)
  IN IF i > Len(s) THEN <<>>
     ELSE <<SubSeq(s, i, j - 1)>> \o SplitWs(From(s, j))

RECURSIVE Sorted(_)
\* sorted(tokens)
Sorted(tokens) ==
  IF tokens = <<>> THEN <<>>
  ELSE LET m == CHOOSE i \in DOMAIN tokens :
                  \A j \in DOMAIN tokens : ~StrLess(tokens[j], tokens[i]) \/ tokens[j] = tokens[i]
       IN <<tokens[m]>> \o Sorted(SubSeq(tokens, 1, m - 1) \o SubSeq(tokens, m + 1, Len(tokens)))

RECURSIVE JoinSpace(_)
\* " ".join(tokens)
JoinSpace(tokens) ==
  IF tokens = <<>> THEN <<>>
  ELSE IF Len(tokens) = 1 THEN tokens[1]
  ELSE tokens[1] \o <<" ">> \o JoinSpace(Tail(tokens))

\* fuzz.token_sort_ratio
token_sort_ratio(s1, s2) ==
  ratio(JoinSpace(Sorted(SplitWs(s1))), JoinSpace(Sorted(SplitWs(s2))))

\* The windows of the longer string that fuzz.partial_ratio aligns the
\* shorter one (of length n) with: the prefixes and suffixes shorter than
\* n and every substring of length n.
Windows(long, n) ==
  {SubSeq(long, 1, k) : k \in 1..(n - 1)}
    \cup {SubSeq(long, i, i + n - 1) : i \in 1..(Len(long) - n + 1)}
    \cup {SubSeq(long, i, Len(long)) : i \in (Len(long) - n + 2)..Len(long)}

\* fuzz.partial_ratio for two non-empty strings: the best ratio of the
\* shorter string against a window of the longer one.
partial_ratio(s1, s2) ==
  LET short == IF Len(s1) <= Len(s2) THEN s1 ELSE s2
      long == IF Len(s1) <= Len(s2) THEN s2 ELSE s1
      scores == {ratio(short, w) : w \in Windows(long, Len(short))}
  IN CHOOSE x \in scores : \A y \in scores : ScoreGE(x, y)

\* ------------------------------------------------------------------------
\* Vendor matcher: vendor_ocr_utils
\* ------------------------------------------------------------------------
\* A catalog entry is a Vendor row (an object with a name attribute and no
\* get method) or a dict with a 'name' key (is_dict).
VendorRow(id, name) == [id |-> id, name |-> name, is_dict |-> FALSE]

VendorDict(id, name) == [id |-> id, name |-> name, is_dict |-> TRUE]

\* name = getattr(vendor, 'name', vendor.get('name', ''))
\*            if hasattr(vendor, 'name') else vendor.get('name', '')
\* Python evaluates the default argument vendor.get('name', '') before it
\* calls getattr, so an object without a get method raises AttributeError.
VendorNameOf(vendor) ==
  IF vendor.is_dict
  THEN [raised |-> FALSE, name |-> vendor.name]
  ELSE [raised |-> TRUE, name |-> <<>>]

\* A variant of MatchResult that loses the vendor.
MatchResultNoVendor(vendor, score, match_type) ==
  [raised |-> FALSE, vendor |-> None, score |-> score, match_type |-> match_type]

MatchRaised == [raised |-> TRUE, vendor |-> None, score |-> ScoreOf(0), match_type |-> "raised"]

MatchResult(vendor, score, match_type) ==
  [raised |-> FALSE, vendor |-> vendor, score |-> score, match_type |-> match_type]

VendorKeywords == << <<"V","E","N","D","O","R">>, <<"S","U","P","P","L","I","E","R">>, <<"F","R","O","M">>, <<"T","O">>, <<"C","O","M","P","A","N","Y">>, <<"S","T","O","R","E">>, <<"S","H","O","P">> >>

\* parts[1].strip(' :\n\t').strip() for parts = line.split(keyword, 1)
AfterKeyword(line, keyword) ==
  Strip(StripChars(From(line, Find(line, keyword) + Len(keyword)), {" ", ":", "\n", "\t"}))

\* The candidates one line adds to possible_vendor_texts.
LineCandidates(line) ==
  LET line_upper == Strip(Upper(line))
      hits == SelectSeq(VendorKeywords,
                        LAMBDA keyword : /\ Contains(line_upper, keyword)
                                         /\ AfterKeyword(line_upper, keyword) # <<>>)
  IN IF line_upper = <<>> THEN <<>>
     ELSE MapSeq(hits, LAMBDA keyword : AfterKeyword(line_upper, keyword))
            \o (IF Len(Strip(line)) < 100 /\ Len(Strip(line)) > 2 /\ AnyAlpha(line)
                THEN <<Strip(line)>> ELSE <<>>)

RECURSIVE Concat(_)
Concat(seqs) == IF seqs = <<>> THEN <<>> ELSE seqs[1] \o Concat(Tail(seqs))

\* possible_vendor_texts (lines 53-80)
PossibleVendorTexts(extracted_text) ==
  LET lines == SplitLines(extracted_text)
      found == Concat(MapSeq(lines, LineCandidates))
      first == SelectSeq(MapSeq(Take(lines, 5), Strip),
                         LAMBDA line_clean : /\ line_clean # <<>>
                                             /\ Len(line_clean) < 100
                                             /\ Len(line_clean) > 2
                                             /\ AnyAlpha(line_clean))
  IN IF found # <<>> THEN found ELSE first

\* vendor_dict[name]: the last catalog entry with that name.
VendorByName(vendors_list, name) ==
  vendors_list[CHOOSE i \in DOMAIN vendors_list :
                 /\ vendors_list[i].name = name
                 /\ \A j \in (i + 1)..Len(vendors_list) : vendors_list[j].name # name]

\* process.extractOne(text, vendor_names, scorer=fuzz.token_sort_ratio):
\* the index of the first name with the highest score.
ExtractOne(text, vendor_names) ==
  CHOOSE i \in DOMAIN vendor_names :
    /\ \A j \in DOMAIN vendor_names :
         ScoreGE(token_sort_ratio(text, vendor_names[i]), token_sort_ratio(text, vendor_names[j]))
    /\ \A j \in 1..(i - 1) :
         ScoreGT(token_sort_ratio(text, vendor_names[i]), token_sort_ratio(text, vendor_names[j]))

\* The outcome of a loop that keeps the running best [name, score] and
\* replaces it only by a strictly higher score: the first candidate with the
\* highest score when that beats start, and start otherwise.
RunningBest(cands, start) ==
  IF \A k \in DOMAIN cands : ~ScoreGT(cands[k].score, start.score) THEN start
  ELSE cands[CHOOSE k \in DOMAIN cands :
               /\ \A j \in DOMAIN cands : ScoreGE(cands[k].score, cands[j].score)
               /\ \A j \in 1..(k - 1) : ScoreGT(cands[k].score, cands[j].score)]

\* The loop of lines 90-112 without its exact-match return: best is
\* [name, score], name None while nothing scored above 0.
BestFuzzy(texts, vendor_names) ==
  LET scored(k) == LET matched_name == vendor_names[ExtractOne(texts[k], vendor_names)]
                   IN [name |-> Some(matched_name),
                       score |-> token_sort_ratio(texts[k], matched_name)]
      cands == [k \in DOMAIN texts |-> scored(k)]
  IN RunningBest(cands, [name |-> None, score |-> ScoreOf(0)])

\* The loops of lines 120-127 over the pairs (candidate, vendor name), the
\* pair number k counting candidates in the outer loop; a pair that fails
\* the containment test leaves the running best alone.
BestPartial(texts, vendor_names, best) ==
  LET scored(k) ==
        LET possible_text == texts[((k - 1) \div Len(vendor_names)) + 1]
            vendor_name == vendor_names[((k - 1) % Len(vendor_names)) + 1]
            contained == \/ Contains(Lower(vendor_name), Lower(possible_text))
                         \/ Contains(Lower(possible_text), Lower(vendor_name))
        IN IF contained
           THEN [name |-> Some(vendor_name), score |-> partial_ratio(possible_text, vendor_name)]
           ELSE [name |-> None, score |-> ScoreOf(0)]
      cands == [k \in 1..(Len(texts) * Len(vendor_names)) |-> scored(k)]
  IN RunningBest(cands, best)

simple_vendor_match(extracted_text, vendors_list, threshold) ==
  LET text_upper == Upper(extracted_text)
      \* The vendors the loop reaches before it returns or raises.
      stops(i) == \/ VendorNameOf(vendors_list[i]).raised
                  \/ /\ vendors_list[i].name # <<>>
                     /\ \/ Contains(text_upper, Upper(vendors_list[i].name))
                        \/ Contains(Upper(vendors_list[i].name), text_upper)
  IN IF extracted_text = <<>> \/ vendors_list = <<>> THEN MatchResult(None, ScoreOf(0), "no_match")
     ELSE IF \E i \in DOMAIN vendors_list : stops(i)
       THEN LET i == CHOOSE i \in DOMAIN vendors_list : stops(i) /\ \A j \in 1..(i - 1) : ~stops(j)
            IN IF VendorNameOf(vendors_list[i]).raised THEN MatchRaised
               ELSE MatchResult(Some(vendors_list[i]), ScoreOf(100), "exact")
     ELSE MatchResult(None, ScoreOf(0), "no_match")

\* The part of match_vendor_from_ocr after the vendor names are extracted.
MatchNames(extracted_text, vendors_list, vendor_names, threshold) ==
  LET texts == PossibleVendorTexts(extracted_text)
      exact == SelectSeq(texts, LAMBDA possible_text :
                                  \E i \in DOMAIN vendor_names : vendor_names[i] = possible_text)
      fuzzy == BestFuzzy(texts, vendor_names)
      partial == BestPartial(texts, vendor_names, fuzzy)
  IN IF texts = <<>> THEN MatchResult(None, ScoreOf(0), "no_match")
     ELSE IF exact # <<>>
       THEN MatchResult(Some(VendorByName(vendors_list, exact[1])), ScoreOf(100), "exact")
     ELSE IF fuzzy.name # None /\ ScoreGE(fuzzy.score, ScoreOf(threshold))
       THEN MatchResult(Some(VendorByName(vendors_list, fuzzy.name[1])), fuzzy.score,
                        IF ScoreGT(ScoreOf(100), fuzzy.score) THEN "fuzzy" ELSE "exact")
     ELSE IF partial.name # None /\ ScoreGE(partial.score, ScoreOf(threshold))
       THEN MatchResult(Some(VendorByName(vendors_list, partial.name[1])), partial.score, "partial")
     ELSE MatchResult(None, partial.score, "no_match")

\* rapidfuzz_available is the module's RAPIDFUZZ_AVAILABLE.
match_vendor_from_ocr(extracted_text, vendors_list, threshold, rapidfuzz_available) ==
  IF ~rapidfuzz_available THEN simple_vendor_match(extracted_text, vendors_list, threshold)
  ELSE IF extracted_text = <<>> \/ vendors_list = <<>> THEN MatchResult(None, ScoreOf(0), "no_match")
  ELSE IF \E i \in DOMAIN vendors_list : VendorNameOf(vendors_list[i]).raised THEN MatchRaised
  ELSE LET vendor_names == SelectSeq(MapSeq(vendors_list, LAMBDA vendor : vendor.name),
                                     LAMBDA name : name # <<>>)
       IN IF vendor_names = <<>> THEN MatchResult(None, ScoreOf(0), "no_match")
          ELSE MatchNames(extracted_text, vendors_list, vendor_names, threshold)

VendorKeywordsLower == MapSeq(VendorKeywords, Lower)

\* vendor_ocr_utils.extract_vendor_name_from_text.  Its keyword list has no
\* 'to'; the keyword is looked for in the lower-cased line and the original
\* line is split on it.
extract_vendor_name_from_text(text) ==
  LET lines == SplitLines(text)
      after(line) ==
        FirstSome(MapSeq(SelectSeq(VendorKeywordsLower, LAMBDA keyword : keyword # <<"t","o">>),
                         LAMBDA keyword :
                           IF /\ Contains(Strip(Lower(line)), keyword)
                              /\ Contains(line, keyword)
                              /\ Len(AfterKeyword(line, keyword)) > 2
                           THEN Some(AfterKeyword(line, keyword)) ELSE None))
      labelled == FirstSome(MapSeq(lines, after))
      first == SelectSeq(MapSeq(Take(lines, 3), Strip),
                         LAMBDA line_clean : /\ line_clean # <<>>
                                             /\ Len(line_clean) < 100
                                             /\ Len(line_clean) > 2
                                             /\ AnyAlpha(line_clean))
  IN IF text = <<>> THEN None
     ELSE IF labelled # None THEN labelled
     ELSE IF first # <<>> THEN Some(first[1])
     ELSE None

\* ------------------------------------------------------------------------
\* OCR engine: app.extract_text_from_image
\* ------------------------------------------------------------------------
RECURSIVE JoinLines(_)
\* '\n'.join(lines)
JoinLines(lines) ==
  IF lines = <<>> THEN <<>>
  ELSE IF Len(lines) = 1 THEN lines[1]
  ELSE lines[1] \o <<"\n">> \o JoinLines(Tail(lines))

RECURSIVE SumSeq(_)
SumSeq(vals) == IF vals = <<>> THEN 0 ELSE vals[1] + SumSeq(Tail(vals))

\* What extract_text_from_image returns: (text, confidence, error).  The
\* confidence is a percentage held as an exact fraction; the error is None
\* or the kind of the message.
OcrResult(text, confidence, error) ==
  [text |-> text, confidence |-> confidence, error |-> error]

OcrError(kind) == OcrResult(<<>>, ScoreOf(0), Some(kind))

\* An uploaded file: whether the path exists, its extension, whether PIL
\* accepts it, and what readtext detects in it, a sequence of
\* [text, confidence] with the confidence in whole percents.
ImageFile(exists, ext, valid, detections) ==
  [exists |-> exists, ext |-> ext, valid |-> valid, detections |-> detections]

\* Lines 64-82: the returns taken before the reader is looked at.
EarlyReturn(available, image) ==
  IF ~available THEN Some(OcrError("not_installed"))
  ELSE IF ~image.exists THEN Some(OcrError("not_found"))
  ELSE IF image.ext = "pdf" THEN Some(OcrError("pdf"))
  ELSE IF ~image.valid THEN Some(OcrError("invalid_image"))
  ELSE None

\* A variant of ReadResult without the test of line 117.
ReadResultUnchecked(detections) ==
  OcrResult(Strip(JoinLines(MapSeq(detections, LAMBDA detection : detection.text))),
            IF detections # <<>>
            THEN Frac(SumSeq(MapSeq(detections, LAMBDA detection : detection.confidence)),
                      Len(detections))
            ELSE ScoreOf(0),
            None)

\* Lines 108-120: the result built from what readtext detected.
ReadResult(detections) ==
  LET text == JoinLines(MapSeq(detections, LAMBDA detection : detection.text))
      confidences == MapSeq(detections, LAMBDA detection : detection.confidence)
      avg_confidence == IF confidences # <<>>
                        THEN Frac(SumSeq(confidences), Len(confidences))
                        ELSE ScoreOf(0)
  IN IF Strip(text) = <<>> THEN OcrError("no_text")
     ELSE OcrResult(Strip(text), avg_confidence, None)

\* One call run to its end with no other call in between.  reader and
\* initializing are the module globals; init_ok says whether the
\* easyocr.Reader constructor succeeds and read_ok whether readtext does.
\* Gives the result and the globals the call leaves behind.
extract_text_from_image(available, image, reader, initializing, init_ok, read_ok) ==
  LET early == EarlyReturn(available, image)
      constructs == reader = "None" /\ ~initializing
      reader_after == IF constructs /\ init_ok THEN "Reader" ELSE reader
  IN IF early # None
     THEN [result |-> early[1], reader |-> reader, initializing |-> initializing]
     ELSE IF constructs /\ ~init_ok
       THEN [result |-> OcrError("init_failed"), reader |-> reader, initializing |-> FALSE]
     ELSE IF reader_after = "None"
       THEN [result |-> OcrError("reader_unavailable"), reader |-> reader,
             initializing |-> initializing]
     ELSE [result |-> IF read_ok THEN ReadResult(image.detections) ELSE OcrError("ocr_error"),
           reader |-> reader_after,
           initializing |-> IF constructs THEN FALSE ELSE initializing]

\* ------------------------------------------------------------------------
\* Form values and stored dates
\* ------------------------------------------------------------------------
RECURSIVE NatDigits(_)
\* str(n) for a natural number n
NatDigits(n) ==
  IF n < 10 THEN <<DigitChars[n + 1]>>
  ELSE NatDigits(n \div 10) \o <<DigitChars[(n % 10) + 1]>>

RECURSIVE ZeroPad(_, _)
ZeroPad(s, width) == IF Len(s) >= width THEN s ELSE ZeroPad(<<"0">> \o s, width)

\* date.isoformat(): YYYY-MM-DD
isoformat(dt) ==
  ZeroPad(NatDigits(dt[1]), 4) \o <<"-">> \o ZeroPad(NatDigits(dt[2]), 2)
    \o <<"-">> \o ZeroPad(NatDigits(dt[3]), 2)

\* datetime.strptime(s, '%Y-%m-%d').date(): Some(date), or None where
\* strptime raises ValueError.  %Y takes four digits, %m and %d one or two.
strptime(s) ==
  LET parts == SplitOn(s, "-")
      digits(p) == p # <<>> /\ \A i \in DOMAIN p : p[i] \in Digits
      dt == <<DigitsValue(parts[1]), DigitsValue(parts[2]), DigitsValue(parts[3])>>
  IN IF /\ Len(parts) = 3
        /\ \A k \in 1..3 : digits(parts[k])
        /\ Len(parts[1]) = 4 /\ Len(parts[2]) <= 2 /\ Len(parts[3]) <= 2
        /\ ValidDate(dt)
     THEN Some(dt) ELSE None

\* float(s) for a form value: Some(hundredths), or None where float raises
\* ValueError.  The forms hold plain decimals with at most two fraction
\* digits.
ParseFloat(s) ==
  LET p == Find(s, <<".">>)
      whole == IF p = 0 THEN s ELSE SubSeq(s, 1, p - 1)
      frac == IF p = 0 THEN <<>> ELSE From(s, p + 1)
  IN IF /\ whole # <<>>
        /\ \A i \in DOMAIN whole : whole[i] \in Digits
        /\ \A i \in DOMAIN frac : frac[i] \in Digits
     THEN Some(FloatValue(s)) ELSE None

\* request.form.get(key) or None
OrNone(value) == IF TruthyStr(value) THEN value ELSE None

\* ------------------------------------------------------------------------
\* Discrepancy reconciler: app.detect_ocr_mismatches
\* ------------------------------------------------------------------------
\* 5 currency units ("allow 5 rupee difference"), in hundredths.
LiveTolerance == 500

\* OCRVendorLinkLog.query.filter_by(bill_id=bill_id).first()
FirstLinkOf(link_log, bill_id) ==
  LET own == SelectSeq(link_log, LAMBDA link : link.bill_id = bill_id)
  IN IF own = <<>> THEN None ELSE Some(own[1])

\* bill.vendor: the Vendor row bill.vendor_id refers to, if there is one.
VendorOf(bill, vendor_table) ==
  IF bill.vendor_id # None /\ bill.vendor_id[1] \in DOMAIN vendor_table
  THEN Some(vendor_table[bill.vendor_id[1]]) ELSE None

\* A variant of detect_ocr_mismatches that finds nothing.
NoMismatches(bill, bill_id, link_log, vendor_table, rounds_up) == [f \in {} |-> {}]

\* The mismatches dict: a function from the names of the mismatching
\* fields to their details.
detect_ocr_mismatches(bill, bill_id, link_log, vendor_table, rounds_up) ==
  LET link == FirstLinkOf(link_log, bill_id)
      vendor == VendorOf(bill, vendor_table)
      fields ==
        {f \in {"bill_number", "amount", "date", "vendor"} :
           \/ /\ f = "bill_number"
              /\ TruthyStr(bill.ocr_bill_number)
              /\ bill.bill_number # bill.ocr_bill_number[1]
           \/ /\ f = "amount"
              /\ TruthyNum(bill.ocr_amount)
              /\ DiffExceeds(bill.amount, bill.ocr_amount[1], LiveTolerance, rounds_up)
           \/ /\ f = "date"
              /\ bill.ocr_date # None
              /\ bill.bill_date # bill.ocr_date[1]
           \/ /\ f = "vendor"
              /\ link # None /\ TruthyStr(link[1].ocr_extracted_name)
              /\ vendor # None
              /\ Lower(vendor[1].name) # Lower(link[1].ocr_extracted_name[1])}
  IN IF bill.bill_type # "normal" THEN [f \in {} |-> {}]
     ELSE [f \in fields |->
             CASE f = "bill_number" ->
                    [ocr |-> bill.ocr_bill_number[1], stored |-> bill.bill_number]
               [] f = "amount" ->
                    [ocr |-> bill.ocr_amount[1], stored |-> bill.amount,
                     difference |-> Abs(bill.amount - bill.ocr_amount[1])]
               [] f = "date" ->
                    [ocr |-> bill.ocr_date[1], stored |-> bill.bill_date]
               [] f = "vendor" ->
                    [ocr |-> link[1].ocr_extracted_name[1], stored |-> vendor[1].name]]

\* ------------------------------------------------------------------------
\* State
\* ------------------------------------------------------------------------
VARIABLES
  installed,              \* EASYOCR_AVAILABLE and RAPIDFUZZ_AVAILABLE, fixed at import
  easyocr_reader,         \* _easyocr_reader: "None" or "Reader"
  easyocr_initializing,   \* _easyocr_initializing
  calls,                  \* the extract_text_from_image call of each server thread
  constructions,          \* how many times easyocr.Reader(...) has returned a reader
  vendor_table,           \* Vendor rows, the id being the index
  bills,                  \* Bill rows, the id being the index
  credit_transactions,    \* CreditTransaction rows
  ocr_audit_log,          \* OCRAuditLog rows
  ocr_verification_log,   \* OCRVerificationLog rows
  ocr_vendor_link_log,    \* OCRVendorLinkLog rows
  audit_log,              \* AuditLog rows
  activity_log,           \* ActivityLog rows
  session,                \* the Flask session of the browser
  request,                \* the request handled last and what became of it
  user_table,             \* User rows that are committed
  db_session,             \* User rows added to db.session and not committed
  invoices,               \* Invoice rows, the id being the index
  credits,                \* Credit rows
  args,                   \* the arguments of a library function applied on its own
  returned                \* what that application returned

engine == <<easyocr_reader, easyocr_initializing>>

threads == <<calls, constructions>>

tables == <<vendor_table, bills, credit_transactions, ocr_audit_log, ocr_verification_log, ocr_vendor_link_log, audit_log, activity_log>>

accounts == <<user_table, db_session, invoices, credits>>

library == <<args, returned>>

vars == <<installed, engine, threads, tables, accounts, session, request, library>>

\* ------------------------------------------------------------------------
\* Bounds and inputs
\* ------------------------------------------------------------------------
MaxBills == 1

MaxVendors == 1

MaxOcrAuditLog == 4

MaxVerificationLog == 2

MaxAuditLog == 4

MaxActivityLog == 5

\* The users create_tables seeds, by id.
UserTable == <<[username |-> "admin", role |-> "admin"], [username |-> "delivery1", role |-> "delivery_man"], [username |-> "salesman1", role |-> "salesman"], [username |-> "organiser1", role |-> "computer_organiser"]>>

\* The users that log in.
LoginUsers == {3, 4}

VendorNames == {<<"A","B","C"," ","T","r","a","d","e","r","s">>}

B7 == <<"B","7">>

B8 == <<"B","8">>

\* Files handed to the OCR engine: a clear photograph of a bill, a blank
\* one, a file PIL rejects, a PDF, and a path where no file is.
ClearImage == ImageFile(TRUE, "png", TRUE, <<[text |-> <<"B","i","l","l"," ","N","o",":"," ","B","7">>, confidence |-> 90], [text |-> <<"D","a","t","e",":"," ","0","1","-","0","6","-","2","4">>, confidence |-> 85], [text |-> <<"T","o","t","a","l",":"," ","1","0","0",".","0","0">>, confidence |-> 80]>>)

BlankImage == ImageFile(TRUE, "png", TRUE, <<[text |-> <<" ">>, confidence |-> 10]>>)

CorruptImage == ImageFile(TRUE, "png", FALSE, <<>>)

PdfFile == ImageFile(TRUE, "pdf", TRUE, <<>>)

MissingFile == ImageFile(FALSE, "png", TRUE, <<>>)

Images == {ClearImage, BlankImage, CorruptImage, PdfFile, MissingFile}

\* The files uploaded in the bill workflow.
Uploads == {ClearImage, CorruptImage}

\* request.form of verify_ocr_bill, verify_bill_by_id and
\* create_manual_handbill, every value a text as the browser sends it.
BillForm(bill_number, amount, bill_date, payment_method, vendor_id) ==
  [bill_number |-> bill_number, amount |-> amount, bill_date |-> bill_date,
   payment_method |-> payment_method, vendor_id |-> vendor_id]

June1 == <<"2","0","2","4","-","0","6","-","0","1">>

June2 == <<"2","0","2","4","-","0","6","-","0","2">>

\* The fields of the clear image, and the same with an amount 4 away.
BillForms == {BillForm(B7, <<"1","0","0",".","0","0">>, June1, "Cash", <<>>), BillForm(B7, <<"1","0","4",".","0","0">>, June1, "Credit", <<"1">>)}

HandbillForms == {BillForm(B8, <<"1","0","6",".","0","0">>, June1, "Cash", <<"1">>)}

\* request.form of verify_ocr_bill_final; a key the form lacks is None.
FinalForm(action, remarks, corrected_bill_number, corrected_amount, corrected_date) ==
  [action |-> action, remarks |-> remarks,
   corrected_bill_number |-> corrected_bill_number,
   corrected_amount |-> corrected_amount, corrected_date |-> corrected_date]

FinalForms == {FinalForm(Some("approve"), "ok", None, None, None), FinalForm(Some("reject"), "unreadable", None, None, None), FinalForm(Some("hold"), "later", Some(B8), Some(<<"1","0","6",".","0","0">>), Some(June2)), FinalForm(Some("correct"), "as printed", Some(B7), Some(<<"1","0","0",".","0","0">>), Some(<<>>)), FinalForm(Some("correct"), "retyped", None, Some(<<"1","0","6",".","0","0">>), Some(June2))}

\* request.form of verify_bill
LegacyForms == {[bill_number |-> Some(B8), amount |-> Some(<<"1","0","4",".","0","0">>)]}

\* ------------------------------------------------------------------------
\* Sessions, requests and the logging helpers
\* ------------------------------------------------------------------------
\* A session key that is not set is None; one that is set holds Some(value).
EmptySession ==
  [user_id |-> None, temp_bill_file |-> None, ocr_extracted_text |-> None,
   ocr_confidence |-> None, ocr_vendor_name |-> None, ocr_vendor_match |-> None,
   ocr_parsed_data |-> None]

Handled(endpoint, bill_id, form, outcome, detail) ==
  [endpoint |-> endpoint, bill_id |-> bill_id, form |-> form,
   outcome |-> outcome, detail |-> detail]

NoRequest == Handled("none", 0, <<>>, "none", <<>>)

\* role_required(*roles): the session names a user with one of the roles.
role_required(roles) ==
  session.user_id # None /\ UserTable[session.user_id[1]].role \in roles

\* log_activity: one ActivityLog row for the session's user.
log_activity(log, action_type, target_entity, target_id) ==
  Append(log, [user_id |-> session.user_id, action_type |-> action_type,
               target_entity |-> target_entity, target_id |-> target_id])

\* log_audit: one AuditLog row, or none when nobody is logged in.
log_audit(log, user_id, action_type, target_type, target_id) ==
  IF user_id = None THEN log
  ELSE Append(log, [user_id |-> user_id[1], action_type |-> action_type,
                    target_type |-> target_type, target_id |-> target_id])

\* The rows a handler is about to add fit the bounds of the model.
Room(log, added, max) == Len(log) + added <= max

\* bill_number is unique among the bills other than bill_id.
UniqueBillNumber(bill_number, bill_id) ==
  \A other \in DOMAIN bills : other # bill_id => bills[other].bill_number # bill_number

\* The Vendor rows as upload_ocr_bill hands them to the parsers and matcher.
RowsOf(table) == [id \in DOMAIN table |-> VendorRow(id, table[id].name)]

VendorRows == RowsOf(vendor_table)

\* ------------------------------------------------------------------------
\* The application after start-up
\* ------------------------------------------------------------------------
InitEngine ==
  /\ easyocr_reader = "None"
  /\ easyocr_initializing = FALSE

\* The users create_tables has seeded, no invoices and no credits.
InitAccounts ==
  /\ user_table = Range(UserTable)
  /\ db_session = {}
  /\ invoices = <<>>
  /\ credits = <<>>

InitTables ==
  /\ vendor_table = <<>>
  /\ bills = <<>>
  /\ credit_transactions = <<>>
  /\ ocr_audit_log = <<>>
  /\ ocr_verification_log = <<>>
  /\ ocr_vendor_link_log = <<>>
  /\ audit_log = <<>>
  /\ activity_log = <<>>

\* The bill workflow runs with rapidfuzz installed, with or without easyocr.
Init ==
  /\ installed \in [easyocr : BOOLEAN, rapidfuzz : {TRUE}]
  /\ InitEngine
  /\ calls = <<>>
  /\ constructions = 0
  /\ InitTables
  /\ InitAccounts
  /\ session = EmptySession
  /\ request = NoRequest
  /\ args = <<>>
  /\ returned = <<>>

\* ------------------------------------------------------------------------
\* upload_ocr_bill (POST /bill/upload)
\* ------------------------------------------------------------------------
\* a or b for optional strings
OrElse(a, b) == IF TruthyStr(a) THEN a ELSE b

\* The parsed fields when nothing was parsed; also session.get('ocr_parsed_data', {})
\* read with .get(key)
NoParsedData == [bill_number |-> None, amount |-> None, date |-> None, vendor_name |-> None]

\* The vendor match when nothing matched; also session.get('ocr_vendor_match', {})
\* read with .get(key, default)
NoVendorMatch == [vendor_id |-> None, match_score |-> ScoreOf(0), match_type |-> "no_match"]

\* A variant of OcrCandidates in which the processing always raises.
OcrCandidatesFailing(extracted_text, existing_vendors, rapidfuzz_available) ==
  [raised |-> TRUE, ocr_vendor_name |-> None, ocr_vendor_match |-> NoVendorMatch,
   ocr_parsed_data |-> NoParsedData]

\* Lines 1430-1467: what the handler derives from the OCR text and puts in
\* the session, and whether the vendor matcher raised on the way.
OcrCandidates(extracted_text, existing_vendors, rapidfuzz_available) ==
  With(parse_bill_data(extracted_text, existing_vendors), LAMBDA parsed_data :
  With(OrElse(extract_vendor_name_from_text(extracted_text), parsed_data.vendor_name),
       LAMBDA ocr_vendor_name :
  With(IF TruthyStr(ocr_vendor_name) /\ existing_vendors # <<>>
       THEN match_vendor_from_ocr(extracted_text, existing_vendors, 80,
                                  rapidfuzz_available)
       ELSE MatchResult(None, ScoreOf(0), "no_match"),
       LAMBDA match :
    [raised |-> match.raised,
     ocr_vendor_name |-> ocr_vendor_name,
     ocr_vendor_match |-> [vendor_id |-> IF match.vendor # None
                                         THEN Some(match.vendor[1].id) ELSE None,
                           match_score |-> match.score,
                           match_type |-> match.match_type],
     ocr_parsed_data |-> [bill_number |-> parsed_data.bill_number,
                          amount |-> parsed_data.amount,
                          date |-> IF parsed_data.date # None
                                   THEN Some(isoformat(parsed_data.date[1])) ELSE None,
                          vendor_name |-> OrElse(parsed_data.vendor_name,
                                                 ocr_vendor_name)]])))

\* The texts extract_text_from_image gives for the uploads.
OcrTexts == {<<>>} \cup {ReadResult(image.detections).text : image \in Uploads}

\* The Vendor tables within the bound, as the rows upload_ocr_bill reads.
VendorCatalogs ==
  {RowsOf(table) : table \in UNION {[1..n -> {[name |-> v] : v \in VendorNames}]
                                      : n \in 0..MaxVendors}}

\* OcrCandidates over the texts, catalogs and installations that occur,
\* computed once.
OcrCandidatesOf ==
  [extracted_text \in OcrTexts, existing_vendors \in VendorCatalogs,
   rapidfuzz_available \in BOOLEAN |->
     OcrCandidates(extracted_text, existing_vendors, rapidfuzz_available)]

\* parse_bill_data(text, None) over the texts that occur, computed once.
ParsedAloneOf == [text \in OcrTexts |-> parse_bill_data(text, <<>>)]

upload_ocr_bill(image, init_ok, read_ok) ==
  /\ role_required({"salesman", "computer_organiser"})
  /\ With(extract_text_from_image(installed.easyocr, image, easyocr_reader,
                                  easyocr_initializing, init_ok, read_ok), LAMBDA call :
     With(OcrCandidatesOf[call.result.text, VendorRows, installed.rapidfuzz], LAMBDA found :
     /\ easyocr_reader' = call.reader
     /\ easyocr_initializing' = call.initializing
     /\ IF found.raised
        THEN \* except Exception: the error is flashed and the upload page shown
             /\ session' = session
             /\ request' = Handled("upload_ocr_bill", 0, image, "error", call.result)
        ELSE /\ session' = [session EXCEPT
                              !.temp_bill_file = Some(image.ext),
                              !.ocr_extracted_text = Some(call.result.text),
                              !.ocr_confidence = Some(call.result.confidence),
                              !.ocr_vendor_name = Some(found.ocr_vendor_name),
                              !.ocr_vendor_match = Some(found.ocr_vendor_match),
                              !.ocr_parsed_data = Some(found.ocr_parsed_data)]
             /\ request' = Handled("upload_ocr_bill", 0, image, "verify", call.result)
     /\ UNCHANGED <<installed, accounts, threads, tables, library>>))

\* ------------------------------------------------------------------------
\* verify_ocr_bill (POST /bill/verify)
\* ------------------------------------------------------------------------
\* int(text) of a form's vendor_id, None for an empty or missing value
FormVendorId(form) ==
  IF TruthyStr(Some(form.vendor_id)) THEN Some(DigitsValue(form.vendor_id)) ELSE None

\* The CreditTransaction a bill paid on credit brings with it.
CreditFor(bill_id, bill, amount) ==
  [bill_id |-> bill_id, bill_number |-> bill.bill_number, vendor_id |-> bill.vendor_id,
   credit_amount |-> amount, status |-> "Pending", payment_method |-> bill.payment_method]

\* What the handler reads from the session (lines 1497-1502 and 1543-1544):
\* the OCR results are used only when temp_bill_file is set.
SessionOcr ==
  LET uploaded == session.temp_bill_file # None
  IN [image_filename |-> IF uploaded THEN Some(session.temp_bill_file[1]) ELSE None,
      extracted_text |-> IF uploaded /\ session.ocr_extracted_text # None
                         THEN session.ocr_extracted_text[1] ELSE <<>>,
      confidence |-> IF uploaded /\ session.ocr_confidence # None
                     THEN session.ocr_confidence[1] ELSE ScoreOf(0),
      parsed_data |-> IF uploaded /\ session.ocr_parsed_data # None
                      THEN session.ocr_parsed_data[1] ELSE NoParsedData,
      ocr_vendor_match |-> IF session.ocr_vendor_match # None
                           THEN session.ocr_vendor_match[1] ELSE NoVendorMatch,
      ocr_vendor_name |-> IF session.ocr_vendor_name # None
                          THEN session.ocr_vendor_name[1] ELSE None]

\* The Bill row of lines 1518-1538, with the vendor of lines 1558-1560.
\* ocr_date is None where the session holds no date.
OcrBill(form, amount, bill_date, ocr, ocr_date) ==
  [bill_number |-> form.bill_number, bill_type |-> "normal",
   amount |-> amount, bill_date |-> bill_date,
   payment_method |-> form.payment_method,
   vendor_id |-> IF /\ TruthyStr(ocr.ocr_vendor_name)
                    /\ FormVendorId(form) = None
                    /\ TruthyNum(ocr.ocr_vendor_match.vendor_id)
                 THEN ocr.ocr_vendor_match.vendor_id ELSE FormVendorId(form),
   created_by |-> session.user_id[1],
   image_filename |-> ocr.image_filename,
   extracted_text |-> ocr.extracted_text, ocr_confidence |-> ocr.confidence,
   ocr_bill_number |-> ocr.parsed_data.bill_number,
   ocr_amount |-> ocr.parsed_data.amount, ocr_date |-> ocr_date,
   ocr_vendor_name |-> ocr.parsed_data.vendor_name,
   is_verified |-> FALSE, verified_by |-> None,
   status |-> "pending", verification_status |-> "unverified"]

\* The OCRVendorLinkLog row of lines 1546-1553
VendorLink(bill_id, ocr) ==
  [bill_id |-> bill_id, ocr_extracted_name |-> ocr.ocr_vendor_name,
   matched_vendor_id |-> ocr.ocr_vendor_match.vendor_id,
   match_score |-> ocr.ocr_vendor_match.match_score,
   match_type |-> ocr.ocr_vendor_match.match_type,
   is_verified |-> ScoreGE(ocr.ocr_vendor_match.match_score, ScoreOf(95))]

\* A variant of InitialEntry that flags an amount other than the OCR amount.
InitialEntryCompared(bill_id, form, amount, ocr) ==
  [bill_id |-> bill_id, verification_type |-> "initial",
   discrepancy_found |-> TruthyNum(ocr.parsed_data.amount)
                           /\ ocr.parsed_data.amount[1] # amount,
   discrepancy_details |-> None,
   stored_bill_number |-> form.bill_number,
   ocr_bill_number |-> ocr.parsed_data.bill_number,
   stored_amount |-> amount, ocr_amount |-> ocr.parsed_data.amount,
   verified_by |-> session.user_id[1]]

\* The OCRAuditLog row of lines 1563-1572
InitialEntry(bill_id, form, amount, ocr) ==
  [bill_id |-> bill_id, verification_type |-> "initial",
   discrepancy_found |-> FALSE, discrepancy_details |-> None,
   stored_bill_number |-> form.bill_number,
   ocr_bill_number |-> ocr.parsed_data.bill_number,
   stored_amount |-> amount, ocr_amount |-> ocr.parsed_data.amount,
   verified_by |-> session.user_id[1]]

\* The two general logs after a bill was created: the rows of the credit
\* transaction, when there is one, come before the row of the bill.
LoggedCreation(credit, bill_id) ==
  LET credit_id == Len(credit_transactions) + 1
  IN /\ Room(activity_log, IF credit THEN 2 ELSE 1, MaxActivityLog)
     /\ Room(audit_log, IF credit THEN 2 ELSE 1, MaxAuditLog)
     /\ activity_log' =
          log_activity(IF credit
                       THEN log_activity(activity_log, "create", "credit_transaction", credit_id)
                       ELSE activity_log,
                       "create", "bill", bill_id)
     /\ audit_log' =
          log_audit(IF credit
                    THEN log_audit(audit_log, session.user_id, "CREATE", "Credit", credit_id)
                    ELSE audit_log,
                    session.user_id, "CREATE", "Bill", bill_id)

verify_ocr_bill(form) ==
  /\ role_required({"salesman", "computer_organiser"})
  /\ UniqueBillNumber(form.bill_number, 0)
  /\ Room(bills, 1, MaxBills)
  /\ Room(ocr_audit_log, 1, MaxOcrAuditLog)
  /\ LoggedCreation(form.payment_method = "Credit", Len(bills) + 1)
  /\ With(ParseFloat(form.amount), LAMBDA amount :
     With(strptime(form.bill_date), LAMBDA bill_date :
     With(SessionOcr, LAMBDA ocr :
     With(IF TruthyStr(ocr.parsed_data.date)
          THEN strptime(ocr.parsed_data.date[1]) ELSE Some(None), LAMBDA ocr_date :
     \* float, strptime, the unique bill_number: a failure is caught, flashed
     \* and nothing is saved
     /\ amount # None /\ bill_date # None /\ ocr_date # None
     /\ With(OcrBill(form, amount[1], bill_date[1], ocr,
                     IF ocr_date[1] = None THEN None ELSE ocr_date), LAMBDA bill :
        /\ bills' = Append(bills, bill)
        /\ credit_transactions' =
             IF form.payment_method = "Credit"
             THEN Append(credit_transactions, CreditFor(Len(bills) + 1, bill, amount[1]))
             ELSE credit_transactions)
     /\ ocr_vendor_link_log' =
          IF TruthyStr(ocr.ocr_vendor_name)
          THEN Append(ocr_vendor_link_log, VendorLink(Len(bills) + 1, ocr))
          ELSE ocr_vendor_link_log
     /\ ocr_audit_log' =
          Append(ocr_audit_log, InitialEntry(Len(bills) + 1, form, amount[1], ocr))
     /\ request' = Handled("verify_ocr_bill", Len(bills) + 1, form, "saved",
                           ocr.parsed_data)))))
  /\ session' = [session EXCEPT !.temp_bill_file = None, !.ocr_extracted_text = None,
                                !.ocr_confidence = None, !.ocr_parsed_data = None]
  /\ UNCHANGED <<installed, accounts, engine, threads, vendor_table, ocr_verification_log, library>>

\* ------------------------------------------------------------------------
\* verify_bill_by_id (POST /bill/verify/<bill_id>)
\* ------------------------------------------------------------------------
\* A variant of ReverifiedStatus that ignores the comparison.
AlwaysVerified(has_discrepancy) == "verified"

\* bill.status and bill.verification_status after the comparison (lines
\* 1670-1671 and 1689-1691)
ReverifiedStatus(has_discrepancy) ==
  IF has_discrepancy THEN "discrepancy_found" ELSE "verified"

\* The OCRAuditLog row of a re-verification (lines 1694-1719)
ReverificationEntry(bill_id, comparison, bill_number, amount, ocr_data, user_id) ==
  [bill_id |-> bill_id, verification_type |-> "re_verification",
   discrepancy_found |-> comparison.has_discrepancy,
   discrepancy_details |-> IF comparison.has_discrepancy
                           THEN Some(comparison.discrepancies) ELSE None,
   stored_bill_number |-> bill_number, ocr_bill_number |-> ocr_data.bill_number,
   stored_amount |-> amount, ocr_amount |-> ocr_data.amount,
   verified_by |-> user_id]

\* Lines 1673-1687: the fields re-extracted from the stored OCR text and
\* their comparison with the submitted fields; None for a bill without an
\* image or without text, which is not compared.
Recheck(bill, form, amount, bill_date, rounds_up) ==
  IF bill.image_filename # None /\ bill.extracted_text # <<>>
  THEN With(ParsedAloneOf[bill.extracted_text], LAMBDA re_parsed :
       With([bill_number |-> re_parsed.bill_number, amount |-> re_parsed.amount,
             date |-> re_parsed.date], LAMBDA ocr_data :
         Some([ocr_data |-> ocr_data,
               comparison |-> compare_bill_data([bill_number |-> Some(form.bill_number),
                                                 amount |-> Some(amount),
                                                 date |-> Some(bill_date)],
                                                ocr_data, rounds_up)])))
  ELSE None

\* A variant of Reverified that leaves a rejected bill as it is.
ReverifiedUnlessRejected(bill, form, amount, bill_date, status) ==
  IF bill.verification_status = "rejected" THEN bill
  ELSE [bill EXCEPT !.bill_number = form.bill_number, !.amount = amount,
                    !.bill_date = bill_date, !.is_verified = TRUE,
                    !.status = status, !.verification_status = status]

\* The bill as lines 1662-1671 and 1689-1691 leave it.
Reverified(bill, form, amount, bill_date, status) ==
  [bill EXCEPT !.bill_number = form.bill_number,
               !.amount = amount,
               !.bill_date = bill_date,
               !.vendor_id = FormVendorId(form),
               !.is_verified = TRUE,
               !.verified_by = session.user_id,
               !.status = status,
               !.verification_status = status]

verify_bill_by_id(bill_id, form, rounds_up) ==
  /\ bill_id \in DOMAIN bills
  /\ role_required({"computer_organiser", "admin"})
  /\ UniqueBillNumber(form.bill_number, bill_id)
  /\ Room(activity_log, 1, MaxActivityLog)
  /\ With(ParseFloat(form.amount), LAMBDA amount :
     With(strptime(form.bill_date), LAMBDA bill_date :
     \* float, strptime, the unique bill_number: a failure is caught, flashed
     \* and nothing is saved
     /\ amount # None /\ bill_date # None
     /\ With(Recheck(bills[bill_id], form, amount[1], bill_date[1], rounds_up),
             LAMBDA recheck :
        With(ReverifiedStatus(recheck # None /\ recheck[1].comparison.has_discrepancy),
             LAMBDA status :
        /\ Room(ocr_audit_log, Len(recheck), MaxOcrAuditLog)
        /\ bills' = [bills EXCEPT ![bill_id] =
                       Reverified(bills[bill_id], form, amount[1], bill_date[1], status)]
        /\ ocr_audit_log' =
             IF recheck # None
             THEN Append(ocr_audit_log,
                         ReverificationEntry(bill_id, recheck[1].comparison,
                                             form.bill_number, amount[1],
                                             recheck[1].ocr_data, session.user_id[1]))
             ELSE ocr_audit_log
        /\ request' = Handled("verify_bill_by_id", bill_id, form, status,
                              IF recheck # None THEN Some(recheck[1].comparison)
                              ELSE None)))))
  /\ activity_log' = log_activity(activity_log, "verify", "bill", bill_id)
  /\ UNCHANGED <<installed, accounts, engine, threads, vendor_table, credit_transactions,
                 ocr_verification_log, ocr_vendor_link_log, audit_log, session, library>>

\* ------------------------------------------------------------------------
\* verify_bill (POST /bills/<bill_id>/verify)
\* ------------------------------------------------------------------------
verify_bill(bill_id, form) ==
  /\ bill_id \in DOMAIN bills
  /\ role_required({"computer_organiser"})
  /\ Room(activity_log, 1, MaxActivityLog)
  /\ With(IF form.bill_number # None THEN form.bill_number[1]
          ELSE bills[bill_id].bill_number, LAMBDA bill_number :
     With(IF form.amount # None THEN ParseFloat(form.amount[1])
          ELSE Some(bills[bill_id].amount), LAMBDA amount :
     \* a ValueError or IntegrityError ends the request with nothing saved
     /\ amount # None
     /\ UniqueBillNumber(bill_number, bill_id)
     /\ bills' = [bills EXCEPT ![bill_id] =
                    [@ EXCEPT !.bill_number = bill_number,
                              !.amount = amount[1],
                              !.is_verified = TRUE,
                              !.verified_by = session.user_id,
                              !.status = "verified"]]))
  /\ activity_log' = log_activity(activity_log, "verify", "bill", bill_id)
  /\ request' = Handled("verify_bill", bill_id, form, "verified", <<>>)
  /\ UNCHANGED <<installed, accounts, engine, threads, vendor_table, credit_transactions,
                 ocr_audit_log, ocr_verification_log, ocr_vendor_link_log, audit_log,
                 session, library>>

\* ------------------------------------------------------------------------
\* verify_ocr_bill_final (POST /ocr/verify/<bill_id>)
\* ------------------------------------------------------------------------
FinalActions == {"approve", "correct", "reject"}

\* The status the verification log records for an action (lines 3084, 3099,
\* 3102)
LoggedStatus(action) ==
  CASE action = "approve" -> "Verified"
    [] action = "correct" -> "Corrected"
    [] action = "reject" -> "Rejected"

\* A variant of AdjudicatedStatus in which a rejection reopens the bill.
RejectReopens(action) == IF action = "reject" THEN "unverified" ELSE "verified"

\* bill.verification_status after an action (lines 3083, 3098, 3101)
AdjudicatedStatus(action) == IF action = "reject" THEN "rejected" ELSE "verified"

\* Some(value) for a conversion that gave value, None for one that raised.
Raising(parsed) == IF parsed = None THEN None ELSE Some(parsed)

\* The overrides of a 'correct' action (lines 3087-3096): the fields the
\* form changes, each None where it leaves the bill alone or Some(value).
\* An amount or date that does not parse raises and the request fails.
Corrections(bill, form) ==
  With(IF form.corrected_bill_number # None
       THEN form.corrected_bill_number[1] ELSE bill.bill_number,
       LAMBDA corrected_bill_number :
  With(IF form.corrected_amount = None
       THEN Some(IF bill.amount # 0 THEN Some(bill.amount) ELSE None)
       ELSE IF form.corrected_amount[1] = <<>> THEN Some(None)
       ELSE Raising(ParseFloat(form.corrected_amount[1])),
       LAMBDA amount :
  With(IF ~TruthyStr(form.corrected_date) THEN Some(None)
       ELSE Raising(strptime(form.corrected_date[1])),
       LAMBDA date :
    [raised |-> amount = None \/ date = None,
     bill_number |-> IF corrected_bill_number # bill.bill_number
                     THEN Some(corrected_bill_number) ELSE None,
     amount |-> IF amount = None THEN None ELSE amount[1],
     bill_date |-> IF date = None THEN None ELSE date[1]])))

\* A variant of Adjudicated that ignores the overrides of a correction.
AdjudicatedKeepingFields(bill, action, fix) ==
  [bill EXCEPT !.verification_status =
                 IF action = "reject" THEN "rejected" ELSE "verified"]

\* The bill as the action leaves it (lines 3082-3102); fix is what
\* Corrections gave, read for a 'correct' action only.
Adjudicated(bill, action, fix) ==
  IF action # "correct"
  THEN [bill EXCEPT !.verification_status = AdjudicatedStatus(action)]
  ELSE [bill EXCEPT
          !.bill_number = IF fix.bill_number # None THEN fix.bill_number[1] ELSE @,
          !.amount = IF fix.amount # None THEN fix.amount[1] ELSE @,
          !.bill_date = IF fix.bill_date # None THEN fix.bill_date[1] ELSE @,
          !.verification_status = AdjudicatedStatus(action)]

\* The OCRVerificationLog row of an action (lines 3108-3117)
VerificationEntry(bill_id, user_id, action, mismatches, remarks) ==
  [bill_id |-> bill_id, verified_by |-> user_id, status |-> LoggedStatus(action),
   mismatch_fields |-> IF DOMAIN mismatches # {} THEN Some(mismatches) ELSE None,
   remarks |-> remarks]

verify_ocr_bill_final(bill_id, form, rounds_up) ==
  /\ bill_id \in DOMAIN bills
  /\ role_required({"admin", "computer_organiser"})
  /\ IF form.action = None \/ form.action[1] \notin FinalActions
     THEN \* 'Invalid action' is flashed and nothing else is done
          /\ request' = Handled("verify_ocr_bill_final", bill_id, form, "invalid", <<>>)
          /\ UNCHANGED <<tables>>
     ELSE /\ Room(ocr_verification_log, 1, MaxVerificationLog)
          /\ Room(audit_log, 1, MaxAuditLog)
          /\ With(Corrections(bills[bill_id], form), LAMBDA fix :
             \* a ValueError or IntegrityError ends the request with nothing saved
             /\ form.action[1] = "correct" => ~fix.raised
             /\ With(Adjudicated(bills[bill_id], form.action[1], fix), LAMBDA after :
                /\ UniqueBillNumber(after.bill_number, bill_id)
                /\ bills' = [bills EXCEPT ![bill_id] = after]
                /\ With(detect_ocr_mismatches(after, bill_id, ocr_vendor_link_log,
                                              vendor_table, rounds_up),
                        LAMBDA mismatches :
                   /\ ocr_verification_log' =
                        Append(ocr_verification_log,
                               VerificationEntry(bill_id, session.user_id[1],
                                                 form.action[1], mismatches, form.remarks))
                   /\ request' = Handled("verify_ocr_bill_final", bill_id, form,
                                         LoggedStatus(form.action[1]), mismatches))))
          /\ audit_log' = log_audit(audit_log, session.user_id, "VERIFY", "OCR", bill_id)
          /\ UNCHANGED <<vendor_table, credit_transactions, ocr_audit_log,
                         ocr_vendor_link_log, activity_log>>
  /\ UNCHANGED <<installed, accounts, engine, threads, session, library>>

\* ------------------------------------------------------------------------
\* create_manual_handbill (POST /bill/manual)
\* ------------------------------------------------------------------------
\* The Bill row of a handbill
Handbill(form, amount, bill_date) ==
  [bill_number |-> form.bill_number, bill_type |-> "handbill",
   amount |-> amount, bill_date |-> bill_date,
   payment_method |-> form.payment_method, vendor_id |-> FormVendorId(form),
   created_by |-> session.user_id[1],
   image_filename |-> None, extracted_text |-> <<>>,
   ocr_confidence |-> ScoreOf(0), ocr_bill_number |-> None,
   ocr_amount |-> None, ocr_date |-> None, ocr_vendor_name |-> None,
   is_verified |-> TRUE, verified_by |-> None,
   status |-> "verified", verification_status |-> "verified"]

create_manual_handbill(form) ==
  /\ role_required({"salesman", "computer_organiser"})
  /\ UniqueBillNumber(form.bill_number, 0)
  /\ Room(bills, 1, MaxBills)
  /\ LoggedCreation(form.payment_method = "Credit", Len(bills) + 1)
  /\ With(ParseFloat(form.amount), LAMBDA amount :
     With(strptime(form.bill_date), LAMBDA bill_date :
     /\ amount # None /\ bill_date # None
     /\ With(Handbill(form, amount[1], bill_date[1]), LAMBDA bill :
        /\ bills' = Append(bills, bill)
        /\ credit_transactions' =
             IF form.payment_method = "Credit"
             THEN Append(credit_transactions, CreditFor(Len(bills) + 1, bill, amount[1]))
             ELSE credit_transactions)))
  /\ request' = Handled("create_manual_handbill", Len(bills) + 1, form, "saved", <<>>)
  /\ UNCHANGED <<installed, accounts, engine, threads, vendor_table, ocr_audit_log,
                 ocr_verification_log, ocr_vendor_link_log, session, library>>

\* ------------------------------------------------------------------------
\* new_vendor (POST /vendors/new), login, logout
\* ------------------------------------------------------------------------
new_vendor(name) ==
  /\ role_required({"admin", "salesman"})
  /\ Room(vendor_table, 1, MaxVendors)
  /\ Room(activity_log, 1, MaxActivityLog)
  /\ vendor_table' = Append(vendor_table, [name |-> name])
  /\ activity_log' = log_activity(activity_log, "create", "vendor", Len(vendor_table) + 1)
  /\ request' = Handled("new_vendor", 0, name, "saved", <<>>)
  /\ UNCHANGED <<installed, accounts, engine, threads, bills, credit_transactions, ocr_audit_log,
                 ocr_verification_log, ocr_vendor_link_log, audit_log, session, library>>

\* A POST /login with the user's password.
login(user_id) ==
  /\ Room(activity_log, 1, MaxActivityLog)
  /\ Room(audit_log, 1, MaxAuditLog)
  /\ session' = [session EXCEPT !.user_id = Some(user_id)]
  /\ activity_log' = Append(activity_log,
                            [user_id |-> Some(user_id), action_type |-> "login",
                             target_entity |-> "user", target_id |-> user_id])
  /\ audit_log' = log_audit(audit_log, Some(user_id), "LOGIN", "User", user_id)
  /\ request' = Handled("login", 0, user_id, "dashboard", <<>>)
  /\ UNCHANGED <<installed, accounts, engine, threads, vendor_table, bills, credit_transactions,
                 ocr_audit_log, ocr_verification_log, ocr_vendor_link_log, library>>

logout ==
  /\ session.user_id # None
  /\ Room(audit_log, 1, MaxAuditLog)
  /\ audit_log' = log_audit(audit_log, session.user_id, "LOGOUT", "User", session.user_id[1])
  /\ session' = EmptySession
  /\ request' = Handled("logout", 0, <<>>, "login", <<>>)
  /\ UNCHANGED <<installed, accounts, engine, threads, vendor_table, bills, credit_transactions,
                 ocr_audit_log, ocr_verification_log, ocr_vendor_link_log, activity_log,
                 library>>

\* ------------------------------------------------------------------------
\* The bill workflow
\* ------------------------------------------------------------------------
Next ==
  \/ \E image \in Uploads, init_ok \in BOOLEAN, read_ok \in BOOLEAN :
       upload_ocr_bill(image, init_ok, read_ok)
  \/ \E form \in BillForms : verify_ocr_bill(form)
  \/ \E bill_id \in 1..MaxBills, form \in BillForms, rounds_up \in BOOLEAN :
       verify_bill_by_id(bill_id, form, rounds_up)
  \/ \E bill_id \in 1..MaxBills, form \in LegacyForms : verify_bill(bill_id, form)
  \/ \E bill_id \in 1..MaxBills, form \in FinalForms, rounds_up \in BOOLEAN :
       verify_ocr_bill_final(bill_id, form, rounds_up)
  \/ \E form \in HandbillForms : create_manual_handbill(form)
  \/ \E name \in VendorNames : new_vendor(name)
  \/ \E user_id \in LoginUsers : login(user_id)
  \/ logout

Spec == Init /\ [][Next]_vars

\* ------------------------------------------------------------------------
\* Concurrent calls of extract_text_from_image (app.run serves each request
\* on its own thread; the module globals are read and written without a
\* lock)
\* ------------------------------------------------------------------------
MaxThreads == 2

Threads == 1..MaxThreads

\* A server thread that is not in extract_text_from_image; result is what
\* the thread's last call returned, and during_init records that the call
\* found, at line 87, no reader and another call initializing one.
Idle == [pc |-> "idle", image |-> <<>>, result |-> <<>>, during_init |-> FALSE]

At(thread, pc) == calls[thread].pc = pc

Goto(thread, pc) == calls' = [calls EXCEPT ![thread].pc = pc]

Returns(thread, result) ==
  calls' = [calls EXCEPT ![thread].pc = "returned", ![thread].result = result]

\* Lines 62-82: a thread enters with an image and takes an early return or
\* comes to the test of line 87.
Enter(thread, image) ==
  /\ At(thread, "idle") \/ At(thread, "returned")
  /\ With(EarlyReturn(installed.easyocr, image), LAMBDA early :
       calls' = [calls EXCEPT ![thread] =
                   IF early # None
                   THEN [pc |-> "returned", image |-> image, result |-> early[1],
                         during_init |-> FALSE]
                   ELSE [pc |-> "line_87", image |-> image,
                         result |-> calls[thread].result, during_init |-> FALSE]])
  /\ UNCHANGED <<installed, accounts, engine, constructions, tables, session, request, library>>

\* Line 87: if _easyocr_reader is None and not _easyocr_initializing
TestReader(thread) ==
  /\ At(thread, "line_87")
  /\ calls' = [calls EXCEPT
                 ![thread].pc = IF easyocr_reader = "None" /\ ~easyocr_initializing
                                THEN "line_89" ELSE "line_100",
                 ![thread].during_init = easyocr_reader = "None" /\ easyocr_initializing]
  /\ UNCHANGED <<installed, accounts, engine, constructions, tables, session, request, library>>

\* Line 89: _easyocr_initializing = True
SetInitializing(thread) ==
  /\ At(thread, "line_89")
  /\ easyocr_initializing' = TRUE
  /\ Goto(thread, "line_91")
  /\ UNCHANGED <<installed, accounts, easyocr_reader, constructions, tables, session, request,
                 library>>

\* Line 91: _easyocr_reader = easyocr.Reader(...), which gives a reader or
\* raises.
Construct(thread, init_ok) ==
  /\ At(thread, "line_91")
  /\ IF init_ok
     THEN /\ easyocr_reader' = "Reader"
          /\ constructions' = constructions + 1
          /\ Goto(thread, "line_93")
     ELSE /\ Goto(thread, "line_95")
          /\ UNCHANGED <<easyocr_reader, constructions>>
  /\ UNCHANGED <<installed, accounts, easyocr_initializing, tables, session, request, library>>

\* Line 93: _easyocr_initializing = False after a successful construction
ClearInitializing(thread) ==
  /\ At(thread, "line_93")
  /\ easyocr_initializing' = FALSE
  /\ Goto(thread, "line_100")
  /\ UNCHANGED <<installed, accounts, easyocr_reader, constructions, tables, session, request,
                 library>>

\* A variant of InitFailed that returns with the flag still set.
InitFailedKeepsFlag(thread) ==
  /\ At(thread, "line_95")
  /\ Returns(thread, OcrError("init_failed"))
  /\ UNCHANGED <<installed, accounts, engine, constructions, tables, session, request, library>>

\* Lines 95-98: the except branch of the construction
InitFailed(thread) ==
  /\ At(thread, "line_95")
  /\ easyocr_initializing' = FALSE
  /\ Returns(thread, OcrError("init_failed"))
  /\ UNCHANGED <<installed, accounts, easyocr_reader, constructions, tables, session, request,
                 library>>

\* A variant of CheckReader that goes on to readtext whatever the reader is.
CheckReaderSkipped(thread) ==
  /\ At(thread, "line_100")
  /\ Goto(thread, "line_105")
  /\ UNCHANGED <<installed, accounts, engine, constructions, tables, session, request, library>>

\* Line 100: if _easyocr_reader is None
CheckReader(thread) ==
  /\ At(thread, "line_100")
  /\ IF easyocr_reader = "None"
     THEN Returns(thread, OcrError("reader_unavailable"))
     ELSE Goto(thread, "line_105")
  /\ UNCHANGED <<installed, accounts, engine, constructions, tables, session, request, library>>

\* Lines 105-120: readtext and the result built from it; an exception of
\* readtext is caught at line 127.
ReadText(thread, read_ok) ==
  /\ At(thread, "line_105")
  /\ Returns(thread, IF read_ok THEN ReadResult(calls[thread].image.detections)
                     ELSE OcrError("ocr_error"))
  /\ UNCHANGED <<installed, accounts, engine, constructions, tables, session, request, library>>

InitOcr ==
  /\ installed \in [easyocr : BOOLEAN, rapidfuzz : {TRUE}]
  /\ InitEngine
  /\ calls = [thread \in Threads |-> Idle]
  /\ constructions = 0
  /\ InitTables
  /\ InitAccounts
  /\ session = EmptySession
  /\ request = NoRequest
  /\ args = <<>>
  /\ returned = <<>>

NextOcr ==
  \/ \E thread \in Threads, image \in Images : Enter(thread, image)
  \/ \E thread \in Threads : TestReader(thread)
  \/ \E thread \in Threads : SetInitializing(thread)
  \/ \E thread \in Threads, init_ok \in BOOLEAN : Construct(thread, init_ok)
  \/ \E thread \in Threads : ClearInitializing(thread)
  \/ \E thread \in Threads : InitFailed(thread)
  \/ \E thread \in Threads : CheckReader(thread)
  \/ \E thread \in Threads, read_ok \in BOOLEAN : ReadText(thread, read_ok)

SpecOcr == InitOcr /\ [][NextOcr]_vars

\* ------------------------------------------------------------------------
\* match_vendor_from_ocr applied on its own
\* ------------------------------------------------------------------------
MaxCatalog == 2

ZedStore == <<"Z","e","d"," ","S","t","o","r","e">>

\* OCR texts: none, a vendor's name as the catalog has it, the same in
\* lower case under a label, a text that names no vendor, the name short of
\* a letter, and the name under a label.
MatchTexts == {<<>>, <<"A","B","C"," ","T","r","a","d","e","r","s">>, <<"F","r","o","m",":"," ","a","b","c"," ","t","r","a","d","e","r","s">>, <<"1","2","/","0","5">>, <<"A","B","C"," ","T","r","a","d","e","r">>, <<"F","r","o","m",":"," ","A","B","C"," ","T","r","a","d","e","r","s">>}

\* The thresholds match_vendor_from_ocr is called with: the one of
\* upload_ocr_bill and the lowest of the scale.
Thresholds == {0, 80}

\* Catalog entries: a Vendor row as upload_ocr_bill passes it, and dicts.
CatalogEntries == {VendorRow(1, <<"A","B","C"," ","T","r","a","d","e","r","s">>), VendorDict(1, <<"A","B","C"," ","T","r","a","d","e","r","s">>), VendorDict(2, ZedStore)}

MatchCatalogs == UNION {[1..n -> CatalogEntries] : n \in 0..MaxCatalog}

InitMatch ==
  /\ installed \in [easyocr : {TRUE}, rapidfuzz : BOOLEAN]
  /\ InitEngine
  /\ calls = <<>>
  /\ constructions = 0
  /\ InitTables
  /\ InitAccounts
  /\ session = EmptySession
  /\ request = NoRequest
  /\ args \in [extracted_text : MatchTexts, vendors_list : MatchCatalogs,
              threshold : Thresholds]
  /\ returned = <<>>

\* The call match_vendor_from_ocr(extracted_text, vendors_list, threshold)
CallMatchVendor ==
  /\ returned = <<>>
  /\ returned' = Some(match_vendor_from_ocr(args.extracted_text, args.vendors_list,
                                            args.threshold, installed.rapidfuzz))
  /\ UNCHANGED <<installed, accounts, engine, threads, tables, session, request, args>>

NextMatch == CallMatchVendor

SpecMatch == InitMatch /\ [][NextMatch]_vars


\* ------------------------------------------------------------------------
\* The reconciler alone: one call of compare_bill_data or of
\* detect_ocr_mismatches on a stored side and an OCR side
\* ------------------------------------------------------------------------
\* Stored bill numbers: none, one as the extractor gives it, and the same
\* in lower case with a trailing blank, as a reviewer may type it.
StoredBillNumbers == {None, Some(B7), Some(<<"b","7"," ">>)}

OcrBillNumbers == {None, Some(B7)}

\* Amounts in hundredths.  3.05 and 8.05 are five units apart and are not
\* exact doubles: float(3.05) - float(8.05) has the absolute value
\* 5.000000000000001.
StoredAmounts == {None, Some(0), Some(100000), Some(305)}

OcrAmounts == {None, Some(0), Some(100000), Some(100499), Some(100500), Some(100600), Some(805)}

StoredDates == {None, Some(<<2024, 6, 1>>)}

OcrDates == {None, Some(<<2024, 6, 1>>), Some(<<2024, 6, 2>>)}

\* The vendor of the bill and the name OCR extracted for it.
StoredVendors == {None, Some(<<"A","B","C"," ","T","r","a","d","e","r","s">>)}

OcrVendors == {None, Some(<<"a","b","c"," ","t","r","a","d","e","r","s">>), Some(ZedStore)}

InitReconcile ==
  /\ installed = [easyocr |-> TRUE, rapidfuzz |-> TRUE]
  /\ InitEngine
  /\ calls = <<>>
  /\ constructions = 0
  /\ InitTables
  /\ InitAccounts
  /\ session = EmptySession
  /\ request = NoRequest
  /\ args \in [stored : [bill_number : StoredBillNumbers, amount : StoredAmounts,
                         date : StoredDates, vendor : StoredVendors],
               ocr : [bill_number : OcrBillNumbers, amount : OcrAmounts,
                      date : OcrDates, vendor : OcrVendors]]
  /\ returned = <<>>

\* The call compare_bill_data(stored_data, ocr_data)
CallCompare(rounds_up) ==
  /\ returned = <<>>
  /\ returned' = Some([function |-> "compare_bill_data",
                       result |-> compare_bill_data(args.stored, args.ocr, rounds_up)])
  /\ UNCHANGED <<installed, accounts, engine, threads, tables, session, request, args>>

\* The Bill row of the stored side, which has a bill number, an amount and
\* a date (nullable=False), with the OCR side in its ocr_ columns.
StoredBill ==
  [bill_type |-> "normal",
   bill_number |-> args.stored.bill_number[1], amount |-> args.stored.amount[1],
   bill_date |-> args.stored.date[1],
   vendor_id |-> IF args.stored.vendor = None THEN None ELSE Some(1),
   ocr_bill_number |-> args.ocr.bill_number, ocr_amount |-> args.ocr.amount,
   ocr_date |-> args.ocr.date]

\* The call detect_ocr_mismatches(bill) on that row, with the vendor table
\* and the link log holding the bill's vendor and the extracted name.
CallDetect(rounds_up) ==
  /\ returned = <<>>
  /\ args.stored.bill_number # None /\ args.stored.amount # None /\ args.stored.date # None
  /\ returned' =
       Some([function |-> "detect_ocr_mismatches",
             result |-> detect_ocr_mismatches(
                          StoredBill, 1,
                          <<[bill_id |-> 1, ocr_extracted_name |-> args.ocr.vendor]>>,
                          IF args.stored.vendor = None THEN <<>>
                          ELSE <<[name |-> args.stored.vendor[1]]>>,
                          rounds_up)])
  /\ UNCHANGED <<installed, accounts, engine, threads, tables, session, request, args>>

NextReconcile ==
  \E rounds_up \in BOOLEAN :
    \/ CallCompare(rounds_up)
    \/ CallDetect(rounds_up)

SpecReconcile == InitReconcile /\ [][NextReconcile]_vars

\* ------------------------------------------------------------------------
\* The field extractor alone: one call of parse_amount, or of
\* parse_bill_data followed by match_vendor_from_ocr, on an OCR text
\* ------------------------------------------------------------------------
\* A bill of four lines.
FourLineBill == <<"A","B","C"," ","T","r","a","d","e","r","s","\n","B","i","l","l"," ","N","o",":"," ","X","Y","-","1","0","0","\n","D","a","t","e",":"," ","0","1","-","0","6","-","2","0","2","4","\n","T","o","t","a","l"," ","R","s"," ","5","0","0",".","0","0">>

QtyLine == <<"Q","t","y"," ","2"," ","@"," ","5","0"," ","="," ","1","0","0",","," ","T","o","t","a","l"," ","2","5","0">>

LabelledTotal == <<"T","o","t","a","l",":"," ","1","2","3","4",".","5","0">>

\* What a text is made of: a line before, a body, and a line after.  The
\* lines around carry the other numbers of a bill: a quantity, a date, a
\* bill number, a phone number.
LinesBefore == {<<>>, <<"Q","t","y"," ","2","\n">>, <<"D","a","t","e",":"," ","0","1","-","0","6","-","2","0","2","4","\n">>, <<"B","i","l","l"," ","N","o",":"," ","B","-","7","\n">>, <<"P","h"," ","5","5","5","0","1","2","3","\n">>}

\* A total of nothing, labelled.
ZeroTotal == <<"T","o","t","a","l",":"," ","0">>

ParseBodies == {LabelledTotal, FourLineBill, QtyLine, ZeroTotal, <<"n","o"," ","n","u","m","b","e","r","s">>}

LinesAfter == {<<>>, <<"\n","Q","t","y"," ","2">>, <<"\n","P","h"," ","5","5","5","0","1","2","3">>}

\* The one date of a text, in the formats of date_patterns.
IsoDate == <<"2","0","2","4","-","0","3","-","1","5">>

MonthNameDate == <<"1","5"," ","M","a","r","c","h"," ","2","0","2","4">>

DateTexts == {IsoDate, MonthNameDate, <<"1","5","/","0","3","/","2","0","2","4">>, <<"1","5","/","0","3","/","2","4">>}

\* Headers of two lines: a plain name or a known vendor's name in one line
\* and a company with a corporate suffix in the other.
PlainThenCompany == <<"A","B","C"," ","T","r","a","d","e","r","s","\n","X","Y","Z"," ","P","v","t"," ","L","t","d">>

KnownThenCompany == <<"Z","e","d"," ","S","t","o","r","e"," ","h","e","r","e","\n","X","Y","Z"," ","P","v","t"," ","L","t","d">>

PlainThenKnown == <<"H","e","l","l","o"," ","W","o","r","l","d","\n","Z","e","d"," ","S","t","o","r","e"," ","h","e","r","e">>

CompanyThenPlain == <<"X","Y","Z"," ","P","v","t"," ","L","t","d","\n","A","B","C"," ","T","r","a","d","e","r","s">>

HeaderTexts == {PlainThenCompany, KnownThenCompany, PlainThenKnown, CompanyThenPlain}

\* existing_vendors of parse_vendor_name: none, or the Vendor row Zed Store.
KnownVendors == {<<>>, <<VendorRow(1, ZedStore)>>}

ParseTexts ==
  {before \o body \o after : before \in LinesBefore, body \in ParseBodies, after \in LinesAfter}
    \cup DateTexts \cup HeaderTexts

\* The catalog [{id 1, name 'ABC Traders'}]
OneVendorCatalog == <<VendorDict(1, <<"A","B","C"," ","T","r","a","d","e","r","s">>)>>

InitParse ==
  /\ installed = [easyocr |-> TRUE, rapidfuzz |-> TRUE]
  /\ InitEngine
  /\ calls = <<>>
  /\ constructions = 0
  /\ InitTables
  /\ InitAccounts
  /\ session = EmptySession
  /\ request = NoRequest
  /\ args \in [text : ParseTexts, vendors_list : {OneVendorCatalog}, threshold : {80}]
  /\ returned = <<>>

\* The call parse_amount(text)
CallParseAmount ==
  /\ returned = <<>>
  /\ returned' = Some([function |-> "parse_amount", result |-> parse_amount(args.text)])
  /\ UNCHANGED <<installed, accounts, engine, threads, tables, session, request, args>>

\* The calls parse_bill_data(text) and match_vendor_from_ocr(text,
\* vendors_list, threshold), one after the other.
CallExtractAndMatch ==
  /\ returned = <<>>
  /\ returned' = Some([function |-> "parse_bill_data",
                       result |-> parse_bill_data(args.text, <<>>),
                       match |-> match_vendor_from_ocr(args.text, args.vendors_list,
                                                       args.threshold, installed.rapidfuzz)])
  /\ UNCHANGED <<installed, accounts, engine, threads, tables, session, request, args>>

\* The call parse_date(text)
CallParseDate ==
  /\ returned = <<>>
  /\ returned' = Some([function |-> "parse_date", result |-> parse_date(args.text)])
  /\ UNCHANGED <<installed, accounts, engine, threads, tables, session, request, args>>

\* The call parse_vendor_name(text, existing_vendors)
CallParseVendorName(existing_vendors) ==
  /\ returned = <<>>
  /\ returned' = Some([function |-> "parse_vendor_name",
                       existing_vendors |-> existing_vendors,
                       result |-> parse_vendor_name(args.text, existing_vendors)])
  /\ UNCHANGED <<installed, accounts, engine, threads, tables, session, request, args>>

NextParse ==
  \/ CallParseAmount
  \/ CallExtractAndMatch
  \/ CallParseDate
  \/ \E existing_vendors \in KnownVendors : CallParseVendorName(existing_vendors)

SpecParse == InitParse /\ [][NextParse]_vars

\* ------------------------------------------------------------------------
\* Invoices and the credits paid against them
\* ------------------------------------------------------------------------
MaxCredits == 3

\* Amounts in hundredths, all of them exact doubles, so that the sums and
\* differences of the Float columns are the sums and differences here.
BillAmounts == {1000000, 250}

CreditAmounts == {500000, 250}

\* A variant of total_credits that adds up the credits of every invoice.
TotalOfAllCredits(invoice_id) ==
  SumSeq([k \in DOMAIN credits |-> credits[k].amount])

\* Invoice.total_credits: sum(credit.amount for credit in self.credits)
total_credits(invoice_id) ==
  LET own == SelectSeq(credits, LAMBDA credit : credit.invoice_id = invoice_id)
  IN SumSeq([k \in DOMAIN own |-> own[k].amount])

\* Invoice.outstanding_balance
outstanding_balance(invoice_id) ==
  invoices[invoice_id].bill_amount - total_credits(invoice_id)

\* Invoice.is_paid
is_paid(invoice_id) == outstanding_balance(invoice_id) <= 0

\* POST /invoices/<invoice_id>/credits/new
new_credit(invoice_id, amount) ==
  /\ Room(credits, 1, MaxCredits)
  /\ IF session.user_id = None
     THEN /\ request' = Handled("new_credit", invoice_id, amount, "login", <<>>)
          /\ UNCHANGED credits
     ELSE IF invoice_id \notin DOMAIN invoices
     THEN /\ request' = Handled("new_credit", invoice_id, amount, "404", <<>>)
          /\ UNCHANGED credits
     ELSE /\ credits' = Append(credits, [invoice_id |-> invoice_id, amount |-> amount,
                                         created_by |-> session.user_id[1]])
          /\ request' = Handled("new_credit", invoice_id, amount, "view_invoice", <<>>)
  /\ UNCHANGED <<installed, engine, threads, tables, user_table, db_session, invoices,
                 session, library>>

\* Two invoices, and a browser that is logged in or not.
InitCredit ==
  /\ installed = [easyocr |-> TRUE, rapidfuzz |-> TRUE]
  /\ InitEngine
  /\ calls = <<>>
  /\ constructions = 0
  /\ InitTables
  /\ user_table = Range(UserTable)
  /\ db_session = {}
  /\ invoices \in [1..2 -> [bill_amount : BillAmounts]]
  /\ credits = <<>>
  /\ session \in {EmptySession, [EmptySession EXCEPT !.user_id = Some(3)]}
  /\ request = NoRequest
  /\ args = <<>>
  /\ returned = <<>>

NextCredit ==
  \E invoice_id \in 1..3, amount \in CreditAmounts : new_credit(invoice_id, amount)

SpecCredit == InitCredit /\ [][NextCredit]_vars

\* ------------------------------------------------------------------------
\* create_tables: the default users of a database
\* ------------------------------------------------------------------------
DefaultRoles == <<"admin", "delivery_man", "salesman", "computer_organiser">>

\* The users a database may hold before create_tables runs; none has the
\* username of a default user.
PriorUsers ==
  {[username |-> "root", role |-> "admin"], [username |-> "owner", role |-> "admin"],
   [username |-> "ravi", role |-> "delivery_man"], [username |-> "kumar", role |-> "delivery_man"],
   [username |-> "mani", role |-> "salesman"],
   [username |-> "devi", role |-> "computer_organiser"],
   [username |-> "latha", role |-> "computer_organiser"]}

\* User.query.filter_by(role=role).first() finds a row; the query flushes
\* the session first, so it sees the rows added before it.
HasRole(rows, role) == \E user \in rows : user.role = role

\* The default users the four tests add to db.session.
AddedDefaults(rows) ==
  {UserTable[k] : k \in {k \in DOMAIN DefaultRoles : ~HasRole(rows, DefaultRoles[k])}}

\* create_tables.  db.session.commit() stands inside the last if, so it
\* runs only when no computer_organiser existed; the rows added and not
\* committed stay in the session, which is discarded with the app context.
create_tables ==
  /\ IF ~HasRole(user_table, "computer_organiser")
     THEN /\ user_table' = user_table \cup AddedDefaults(user_table)
          /\ db_session' = {}
     ELSE /\ db_session' = AddedDefaults(user_table)
          /\ UNCHANGED user_table
  /\ request' = Handled("create_tables", 0, <<>>, "done", <<>>)
  /\ UNCHANGED <<installed, engine, threads, tables, invoices, credits, session, library>>

InitUsers ==
  /\ installed = [easyocr |-> TRUE, rapidfuzz |-> TRUE]
  /\ InitEngine
  /\ calls = <<>>
  /\ constructions = 0
  /\ InitTables
  /\ user_table \in SUBSET PriorUsers
  /\ db_session = {}
  /\ invoices = <<>>
  /\ credits = <<>>
  /\ session = EmptySession
  /\ request = NoRequest
  /\ args = <<>>
  /\ returned = <<>>

NextUsers == create_tables

SpecUsers == InitUsers /\ [][NextUsers]_vars

\* ------------------------------------------------------------------------
\* Properties
\* ------------------------------------------------------------------------
\* The calls that have returned, under SpecOcr
ReturnedCalls == {thread \in DOMAIN calls : calls[thread].pc = "returned"}

\* C1: under any interleaving of concurrent extract_text_from_image calls
\* the easyocr.Reader constructor runs at most once.
C1_ConstructedAtMostOnce == constructions <= 1

\* C10: every return of extract_text_from_image with an error has the empty
\* text and confidence 0, and every return without an error has a non-empty
\* text.
C10_ReturnShape ==
  \A thread \in ReturnedCalls :
    LET result == calls[thread].result
    IN /\ result.error # None => result.text = <<>> /\ result.confidence = ScoreOf(0)
       /\ result.error = None => result.text # <<>>

\* One call has returned the text of the clear image and another has
\* returned from an image in which readtext found only blanks.
C10_Returned ==
  \E thread, other \in ReturnedCalls :
    /\ calls[thread].result.error = None
    /\ calls[thread].image = ClearImage
    /\ calls[other].image = BlankImage
    /\ calls[other].result.error = Some("no_text")

\* C8: match_vendor_from_ocr never raises, whatever the text and whether the
\* catalog holds Vendor rows or dicts.
C8_NeverRaises == returned # <<>> => ~returned[1].raised


\* The last request was a re-verification that compared the bill with its
\* stored OCR text.
Rechecked == request.endpoint = "verify_bill_by_id" /\ request.detail # None

\* The report of the last re-verification names the amount.
AmountReported ==
  \E discrepancy \in Range(request.detail[1].discrepancies) : discrepancy.field = "amount"

\* C2 as stated: a re-verification whose amount is within 5 currency units
\* of the re-extracted amount, with bill number and date in agreement,
\* leaves the bill verified.
C2_WithinFiveVerified ==
  Rechecked =>
    LET bill == bills[request.bill_id]
        ocr == ParsedAloneOf[bill.extracted_text]
        amount == ParseFloat(request.form.amount)[1]
    IN (/\ TruthyNum(ocr.amount)
        /\ Abs(amount - ocr.amount[1]) <= LiveTolerance
        /\ Some(request.form.bill_number) = ocr.bill_number
        /\ strptime(request.form.bill_date) = ocr.date)
       => bill.verification_status = "verified"

\* C2: re-verification reports an amount discrepancy, and leaves the bill in
\* discrepancy_found, when the submitted amount and the re-extracted amount
\* differ by more than 0.01; with equal amounts and bill number and date in
\* agreement the bill ends in verified.
C2_AmountTolerance ==
  Rechecked =>
    LET bill == bills[request.bill_id]
        ocr == ParsedAloneOf[bill.extracted_text]
        amount == ParseFloat(request.form.amount)[1]
    IN (TruthyNum(ocr.amount) /\ amount # 0) =>
         /\ Abs(amount - ocr.amount[1]) > StrictTolerance
              => AmountReported /\ bill.verification_status = "discrepancy_found"
         /\ Abs(amount - ocr.amount[1]) < StrictTolerance
              => /\ ~AmountReported
                 /\ (/\ Some(request.form.bill_number) = ocr.bill_number
                     /\ strptime(request.form.bill_date) = ocr.date)
                    => bill.verification_status = "verified"

\* A re-verification with an amount 4 away from the re-extracted amount,
\* bill number and date agreeing, has left the bill in discrepancy_found.
C2_FourAway ==
  /\ Rechecked
  /\ LET bill == bills[request.bill_id]
         ocr == ParsedAloneOf[bill.extracted_text]
     IN /\ TruthyNum(ocr.amount)
        /\ Abs(bill.amount - ocr.amount[1]) = 400
        /\ Some(bill.bill_number) = ocr.bill_number
        /\ Some(bill.bill_date) = ocr.date
        /\ bill.verification_status = "discrepancy_found"

\* C3: after a re-verification of a bill with an image and stored OCR text,
\* status and verification_status are discrepancy_found exactly when the
\* report built from the submitted and the re-extracted fields has
\* has_discrepancy, and verified otherwise, and the OCRAuditLog entry the
\* re-verification wrote carries the same flag.
C3_StatusFollowsReport ==
  Rechecked =>
    LET bill == bills[request.bill_id]
        ocr == ParsedAloneOf[bill.extracted_text]
        report == request.detail[1]
        entry == ocr_audit_log[Len(ocr_audit_log)]
        expected == IF report.has_discrepancy THEN "discrepancy_found" ELSE "verified"
    IN /\ \E rounds_up \in BOOLEAN :
            report = compare_bill_data(
                       [bill_number |-> Some(request.form.bill_number),
                        amount |-> ParseFloat(request.form.amount),
                        date |-> strptime(request.form.bill_date)],
                       [bill_number |-> ocr.bill_number, amount |-> ocr.amount,
                        date |-> ocr.date], rounds_up)
       /\ bill.verification_status = expected
       /\ bill.status = expected
       /\ entry.bill_id = request.bill_id
       /\ entry.verification_type = "re_verification"
       /\ entry.discrepancy_found = report.has_discrepancy

\* A re-verification found a discrepancy on a bill that an earlier
\* re-verification had found in agreement.
C3_BothOutcomes ==
  /\ Rechecked
  /\ request.detail[1].has_discrepancy
  /\ \E i \in 1..(Len(ocr_audit_log) - 1) :
       /\ ocr_audit_log[i].verification_type = "re_verification"
       /\ ~ocr_audit_log[i].discrepancy_found


\* C4: approve sets verification_status to verified and reject sets it to
\* rejected, both leaving bill_number, amount and bill_date as they were;
\* correct applies the overrides the form supplies and sets
\* verification_status to verified; any other action value leaves the bills
\* and every log table unchanged.
C4_Adjudication ==
  [][\A bill_id \in DOMAIN bills, form \in FinalForms, rounds_up \in BOOLEAN :
       (/\ request'.endpoint = "verify_ocr_bill_final"
        /\ verify_ocr_bill_final(bill_id, form, rounds_up)) =>
         LET before == bills[bill_id]
             after == bills'[bill_id]
             kept == /\ after.bill_number = before.bill_number
                     /\ after.amount = before.amount
                     /\ after.bill_date = before.bill_date
         IN CASE form.action = Some("approve") ->
                   after.verification_status = "verified" /\ kept
              [] form.action = Some("reject") ->
                   after.verification_status = "rejected" /\ kept
              [] form.action = Some("correct") ->
                   /\ after.verification_status = "verified"
                   /\ after.bill_number = IF form.corrected_bill_number # None
                                          THEN form.corrected_bill_number[1]
                                          ELSE before.bill_number
                   /\ after.amount = IF TruthyStr(form.corrected_amount)
                                     THEN ParseFloat(form.corrected_amount[1])[1]
                                     ELSE before.amount
                   /\ after.bill_date = IF TruthyStr(form.corrected_date)
                                        THEN strptime(form.corrected_date[1])[1]
                                        ELSE before.bill_date
              [] OTHER -> UNCHANGED tables]_vars

\* A correction has replaced the amount and the date of a bill, and a
\* rejection is on record for the same bill.
C4_CorrectedAfterReject ==
  /\ request.endpoint = "verify_ocr_bill_final"
  /\ request.outcome = "Corrected"
  /\ request.form.corrected_amount = Some(<<"1","0","6",".","0","0">>)
  /\ bills[request.bill_id].amount = 10600
  /\ bills[request.bill_id].bill_date = <<2024, 6, 2>>
  /\ bills[request.bill_id].verification_status = "verified"
  /\ \E i \in DOMAIN ocr_verification_log : ocr_verification_log[i].status = "Rejected"

\* C5: an approve, correct or reject action appends exactly one
\* OCRVerificationLog entry for the bill, with the acting reviewer, the
\* status Verified, Corrected or Rejected of the action, the remarks, and
\* the mismatches of bill number, amount (more than 5 apart) and date
\* between the bill's values after the action and its OCR values; no
\* request modifies or removes an entry that exists.
C5_VerificationLogged ==
  [][/\ Len(ocr_verification_log') >= Len(ocr_verification_log)
     /\ SubSeq(ocr_verification_log', 1, Len(ocr_verification_log)) = ocr_verification_log
     /\ \A bill_id \in DOMAIN bills, form \in FinalForms, rounds_up \in BOOLEAN :
          (/\ request'.endpoint = "verify_ocr_bill_final"
           /\ form.action \in {Some("approve"), Some("correct"), Some("reject")}
           /\ verify_ocr_bill_final(bill_id, form, rounds_up)) =>
            LET after == bills'[bill_id]
                entry == ocr_verification_log'[Len(ocr_verification_log')]
                fields == IF entry.mismatch_fields = None THEN {}
                          ELSE DOMAIN entry.mismatch_fields[1]
                normal == after.bill_type = "normal"
            IN /\ Len(ocr_verification_log') = Len(ocr_verification_log) + 1
               /\ entry.bill_id = bill_id
               /\ entry.verified_by = session.user_id[1]
               /\ entry.status = CASE form.action[1] = "approve" -> "Verified"
                                   [] form.action[1] = "correct" -> "Corrected"
                                   [] form.action[1] = "reject" -> "Rejected"
               /\ entry.remarks = form.remarks
               /\ "bill_number" \in fields <=>
                    /\ normal /\ TruthyStr(after.ocr_bill_number)
                    /\ after.bill_number # after.ocr_bill_number[1]
               /\ "date" \in fields <=>
                    /\ normal /\ after.ocr_date # None
                    /\ after.bill_date # after.ocr_date[1]
               /\ (normal /\ TruthyNum(after.ocr_amount)
                     /\ Abs(after.amount - after.ocr_amount[1]) > LiveTolerance)
                    => "amount" \in fields
               /\ (~normal \/ ~TruthyNum(after.ocr_amount)
                     \/ Abs(after.amount - after.ocr_amount[1]) < LiveTolerance)
                    => "amount" \notin fields]_vars

\* A correction that made the stored values equal to the OCR values logged
\* no mismatch, after an action on the same bill had logged mismatches.
C5_CorrectionClearsMismatches ==
  /\ Len(ocr_verification_log) = 2
  /\ ocr_verification_log[1].mismatch_fields # None
  /\ ocr_verification_log[2].status = "Corrected"
  /\ ocr_verification_log[2].mismatch_fields = None
  /\ ocr_verification_log[1].bill_id = ocr_verification_log[2].bill_id
  /\ bills[ocr_verification_log[2].bill_id].ocr_amount = Some(10000)
  /\ bills[ocr_verification_log[2].bill_id].amount = 10000


\* The OCRAuditLog entries of a bill
AuditEntriesOf(bill_id) ==
  {i \in DOMAIN ocr_audit_log : ocr_audit_log[i].bill_id = bill_id}

\* C6: initial verification creates the bill with the reviewer's bill
\* number, amount and date as submitted and verification_status unverified,
\* and writes exactly one OCRAuditLog entry for it, of type initial with
\* discrepancy_found false, whether or not the submitted values agree with
\* the OCR candidates of the session.
C6_InitialVerification ==
  request.endpoint = "verify_ocr_bill" =>
    LET bill == bills[request.bill_id]
        form == request.form
    IN /\ request.bill_id = Len(bills)
       /\ bill.bill_number = form.bill_number
       /\ Some(bill.amount) = ParseFloat(form.amount)
       /\ Some(bill.bill_date) = strptime(form.bill_date)
       /\ bill.verification_status = "unverified"
       /\ Cardinality(AuditEntriesOf(request.bill_id)) = 1
       /\ \A i \in AuditEntriesOf(request.bill_id) :
            /\ i = Len(ocr_audit_log)
            /\ ocr_audit_log[i].verification_type = "initial"
            /\ ocr_audit_log[i].discrepancy_found = FALSE

\* A bill has been created with an amount other than the OCR candidate
\* that the session held.
C6_DisagreeingBillSaved ==
  /\ request.endpoint = "verify_ocr_bill"
  /\ TruthyNum(request.detail.amount)
  /\ Some(request.detail.amount[1]) # ParseFloat(request.form.amount)
  /\ bills[request.bill_id].amount = 10400
  /\ bills[request.bill_id].ocr_amount = Some(10000)

VerificationStatuses == {"unverified", "verified", "discrepancy_found", "rejected"}

C9_UploadSurvivesOcrError ==
  (request.endpoint = "upload_ocr_bill" /\ request.detail.error # None) =>
    /\ request.outcome = "verify"
    /\ session.temp_bill_file = Some(request.form.ext)
    /\ session.ocr_extracted_text = Some(<<>>)
    /\ session.ocr_confidence = Some(ScoreOf(0))
    /\ session.ocr_parsed_data = Some(NoParsedData)

\* A bill has been saved after an upload whose OCR step returned an error,
\* with no OCR text and no OCR candidates.
C9_SavedWithoutOcr ==
  /\ request.endpoint = "verify_ocr_bill"
  /\ request.detail = NoParsedData
  /\ bills[request.bill_id].image_filename # None
  /\ bills[request.bill_id].extracted_text = <<>>
  /\ bills[request.bill_id].ocr_amount = None


\* The thread is between the assignment of line 89 and the assignment of
\* line 93 or 95 that undoes it.
InInit(thread) == calls[thread].pc \in {"line_91", "line_93", "line_95"}

\* C11: a failed initialization does not poison the singleton: the failing
\* call returns with the flag cleared and the reader as it was, the flag is
\* never left set with no call initializing, a call that finds no reader
\* and no flag goes on to initialize, and a constructor that succeeds gives
\* the reader.
C11_RetryAfterFailure ==
  /\ []((\A thread \in DOMAIN calls : ~InInit(thread)) => ~easyocr_initializing)
  /\ [][\A thread \in DOMAIN calls :
          /\ InitFailed(thread)
               => ~easyocr_initializing' /\ easyocr_reader' = easyocr_reader
          /\ (TestReader(thread) /\ easyocr_reader = "None" /\ ~easyocr_initializing)
               => calls'[thread].pc = "line_89"
          /\ Construct(thread, TRUE) => easyocr_reader' = "Reader"]_vars

\* With no other call ever made, a thread whose last call returned the
\* initialization failure has constructed the reader in its next call.
C11_Retried ==
  \E thread \in DOMAIN calls :
    /\ \A other \in DOMAIN calls \ {thread} : calls[other] = Idle
    /\ calls[thread].result = OcrError("init_failed")
    /\ calls[thread].pc = "line_93"
    /\ easyocr_reader = "Reader"
    /\ constructions = 1


\* match_vendor_from_ocr has returned, with rapidfuzz or without, from a
\* call with a text and a catalog of dicts.
MatchedDicts(rapidfuzz_available) ==
  /\ returned # <<>>
  /\ installed.rapidfuzz = rapidfuzz_available
  /\ args.extracted_text # <<>>
  /\ args.vendors_list # <<>>
  /\ \A i \in DOMAIN args.vendors_list : args.vendors_list[i].is_dict

\* C12: when a candidate derived from the OCR text equals a catalog name
\* under case-normalized comparison, match_vendor_from_ocr returns a vendor
\* of that name with score 100 and match_kind exact.
C12_ExactWins ==
  MatchedDicts(TRUE) =>
    \A possible_text \in Range(PossibleVendorTexts(args.extracted_text)),
       i \in DOMAIN args.vendors_list :
      Lower(possible_text) = Lower(args.vendors_list[i].name) =>
        /\ ~returned[1].raised
        /\ returned[1].match_type = "exact"
        /\ returned[1].score = ScoreOf(100)
        /\ returned[1].vendor # None
        /\ Lower(returned[1].vendor[1].name) = Lower(possible_text)

C14_FallbackKinds ==
  MatchedDicts(FALSE) =>
    LET text_upper == Upper(args.extracted_text)
        name_upper(i) == Upper(args.vendors_list[i].name)
        contained(i) == \/ Contains(text_upper, name_upper(i))
                        \/ Contains(name_upper(i), text_upper)
        first(i) == contained(i) /\ \A j \in 1..(i - 1) : ~contained(j)
    IN /\ \A i \in DOMAIN args.vendors_list :
            first(i) /\ name_upper(i) = text_upper =>
              returned[1] = MatchResult(Some(args.vendors_list[i]), ScoreOf(100), "exact")
       /\ \A i \in DOMAIN args.vendors_list :
            first(i) /\ Len(text_upper) > Len(name_upper(i)) =>
              returned[1] = MatchResult(Some(args.vendors_list[i]), ScoreOf(90), "partial")
       /\ (\A i \in DOMAIN args.vendors_list : ~contained(i)) =>
            returned[1] = MatchResult(None, ScoreOf(0), "no_match")


Compared == returned # <<>> /\ returned[1].function = "compare_bill_data"

Detected == returned # <<>> /\ returned[1].function = "detect_ocr_mismatches"

\* The side of args that holds a field of a discrepancy.
SideOf(side, field) ==
  CASE field = "bill_number" -> side.bill_number
    [] field = "amount" -> side.amount
    [] field = "date" -> side.date
    [] field = "vendor" -> side.vendor

\* C15: compare_bill_data and detect_ocr_mismatches flag a field only when
\* it is present on the stored side and on the OCR side, and has_discrepancy
\* is true exactly when the list of discrepancies is not empty.
C15_FlaggedOnlyWhenPresent ==
  /\ Compared =>
       LET report == returned[1].result
       IN /\ \A k \in DOMAIN report.discrepancies :
               /\ SideOf(args.stored, report.discrepancies[k].field) # None
               /\ SideOf(args.ocr, report.discrepancies[k].field) # None
          /\ report.has_discrepancy <=> report.discrepancies # <<>>
  /\ Detected =>
       \A field \in DOMAIN returned[1].result :
         /\ SideOf(args.stored, field) # None
         /\ SideOf(args.ocr, field) # None

\* compare_bill_data has reported the date alone for sides of which the
\* OCR side has no bill number and the stored side no amount, though the
\* other side has them.
C15_AbsentFieldsSkipped ==
  /\ Compared
  /\ args.stored.bill_number # None /\ args.ocr.bill_number = None
  /\ args.stored.amount = None /\ args.ocr.amount # None
  /\ returned[1].result.has_discrepancy
  /\ Len(returned[1].result.discrepancies) = 1
  /\ returned[1].result.discrepancies[1].field = "date"

\* C16: two bill numbers that differ only in letter case or in leading and
\* trailing whitespace are not reported as a bill_number discrepancy, by
\* compare_bill_data or by detect_ocr_mismatches.
C16_NormalizedBillNumbers ==
  (/\ returned # <<>>
   /\ args.stored.bill_number # None /\ args.ocr.bill_number # None
   /\ Upper(Strip(args.stored.bill_number[1])) = Upper(Strip(args.ocr.bill_number[1])))
    => /\ Compared =>
            \A k \in DOMAIN returned[1].result.discrepancies :
              returned[1].result.discrepancies[k].field # "bill_number"
       /\ Detected => "bill_number" \notin DOMAIN returned[1].result

\* C17: detect_ocr_mismatches flags the amount if and only if the stored
\* amount and the OCR amount differ by more than 5, and the difference it
\* records is that absolute difference.
C17_FiveUnitTolerance ==
  (Detected /\ args.ocr.amount # None) =>
    LET difference == Abs(args.stored.amount[1] - args.ocr.amount[1])
    IN /\ "amount" \in DOMAIN returned[1].result <=> difference > 500
       /\ "amount" \in DOMAIN returned[1].result =>
            returned[1].result["amount"].difference = difference


ParsedAmount == returned # <<>> /\ returned[1].function = "parse_amount"

\* C18: for the bill of four lines and the catalog of ABC Traders at
\* threshold 80, the extractor returns bill number XY-100, amount 500.00,
\* date 2024-06-01 and vendor name ABC Traders, and the matcher returns
\* vendor 1 with score 100 and match_kind exact.
C18_FourLineBill ==
  (/\ returned # <<>> /\ returned[1].function = "parse_bill_data"
   /\ args.text = FourLineBill) =>
    /\ returned[1].result =
         [bill_number |-> Some(<<"X","Y","-","1","0","0">>),
          amount |-> Some(50000),
          date |-> Some(<<2024, 6, 1>>),
          vendor_name |-> Some(<<"A","B","C"," ","T","r","a","d","e","r","s">>)]
    /\ returned[1].match = MatchResult(Some(args.vendors_list[1]), ScoreOf(100), "exact")

\* C19: for every text that contains Total: 1234.50, whatever other
\* numbers it contains, parse_amount returns 1234.50.
C19_LabelledTotalWins ==
  (ParsedAmount /\ Contains(args.text, LabelledTotal)) =>
    returned[1].result = Some(123450)

\* The candidates the patterns of parse_amount collect from a text.
AmountCandidates(text) ==
  LET text_clean == RemoveChar(text, ",")
      text_lower == Lower(text_clean)
  IN UNION {Range(MapSeq(FindIter(text_lower, LAMBDA i : AmountPattern(text_lower, n, i)),
                         FloatValue)) : n \in 1..3}
       \cup {amount \in Range(MapSeq(FindIter(text_clean, LAMBDA i : CurrencyAt(text_clean, i)),
                                     FloatValue)) : amount > 0}

\* C20: parse_amount returns the maximum of the candidates collected by
\* all its patterns, and nothing exactly when no candidate was collected;
\* for Qty 2 @ 50 = 100, Total 250 it returns 250.
C20_MaximumCandidate ==
  ParsedAmount =>
    /\ returned[1].result = None <=> AmountCandidates(args.text) = {}
    /\ returned[1].result # None =>
         /\ returned[1].result[1] \in AmountCandidates(args.text)
         /\ \A amount \in AmountCandidates(args.text) : amount <= returned[1].result[1]
    /\ args.text = QtyLine => returned[1].result = Some(25000)

\* parse_amount has returned 250 for Qty 2 @ 50 = 100, Total 250, whose
\* candidates are 2, 50, 100 and 250.
C20_QtyLineTotal ==
  /\ ParsedAmount
  /\ args.text = QtyLine
  /\ AmountCandidates(args.text) = {200, 5000, 10000, 25000}
  /\ returned[1].result = Some(25000)


ParsedDate == returned # <<>> /\ returned[1].function = "parse_date"

\* C26: for a text whose only date is written 2024-03-15, 15 March 2024,
\* 15/03/2024 or 15/03/24, parse_date returns the date 2024-03-15.
C26_EveryFormat ==
  (ParsedDate /\ args.text \in DateTexts) => returned[1].result = Some(<<2024, 3, 15>>)

\* C27: the result of parse_amount is absent or strictly greater than 0,
\* also for Total: 0.
C27_PositiveOrAbsent ==
  ParsedAmount => \/ returned[1].result = None
                  \/ returned[1].result[1] > 0

ParsedVendorName == returned # <<>> /\ returned[1].function = "parse_vendor_name"

\* The first ten lines of a text that hold none of the skipped words.
CandidateLines(text) ==
  SelectSeq(MapSeq(Take(SplitLines(text), 10), Strip),
            LAMBDA line : \A k \in DOMAIN SkipWords : ~Contains(Lower(line), SkipWords[k]))

HasSuffix(line) == \E k \in DOMAIN CompanyIndicators : Contains(line, CompanyIndicators[k])

\* C25: parse_vendor_name returns the first candidate line with a corporate
\* suffix if there is one, whatever lines come before it; with no such line
\* and a known vendor named in a candidate line, that vendor's name.
C25_GlobalPriority ==
  ParsedVendorName =>
    LET lines == CandidateLines(args.text)
        suffixed == SelectSeq(lines, HasSuffix)
        known == {vendor \in Range(returned[1].existing_vendors) :
                    \E k \in DOMAIN lines : Contains(Lower(lines[k]), Lower(vendor.name))}
    IN /\ suffixed # <<>> => returned[1].result = Some(suffixed[1])
       /\ (suffixed = <<>> /\ known # {}) =>
            \E vendor \in known : returned[1].result = Some(vendor.name)


\* C28 as stated: readtext is never invoked while the reader is None, and
\* a call that arrived while another call was initializing the reader
\* returns the error of line 101.
C28_ArrivalReturnsError ==
  /\ \A thread \in DOMAIN calls : At(thread, "line_105") => easyocr_reader # "None"
  /\ \A thread \in DOMAIN calls :
       (At(thread, "returned") /\ calls[thread].during_init)
         => calls[thread].result = OcrError("reader_unavailable")

\* C28: readtext is never invoked while the reader is None; a call that
\* arrives while another call is initializing the reader does not wait and
\* does not construct, it goes to the test of line 100; there it returns
\* the error of line 101 if the reader is still None and goes on to
\* readtext if the other call has constructed it meanwhile.
C28_NoWaiting ==
  /\ [](\A thread \in DOMAIN calls : At(thread, "line_105") => easyocr_reader # "None")
  /\ [][\A thread \in DOMAIN calls :
          /\ (TestReader(thread) /\ easyocr_initializing)
               => calls'[thread].pc = "line_100"
          /\ (CheckReader(thread) /\ calls[thread].during_init) =>
               IF easyocr_reader = "None"
               THEN /\ calls'[thread].pc = "returned"
                    /\ calls'[thread].result = OcrError("reader_unavailable")
               ELSE calls'[thread].pc = "line_105"]_vars

\* A call that arrived during another call's initialization has returned
\* the error of line 101 while that initialization is still going on.
C28_ReturnedDuringInit ==
  \E thread \in DOMAIN calls :
    /\ At(thread, "returned")
    /\ calls[thread].during_init
    /\ calls[thread].result = OcrError("reader_unavailable")
    /\ \E other \in DOMAIN calls \ {thread} : At(other, "line_91")


\* C21: new_credit lowers the outstanding balance of its invoice by the
\* amount paid and leaves that of the other invoices alone, so that the
\* balance is bill_amount less the credits of the invoice; is_paid holds
\* exactly when the balance is not above 0.
C21_BalanceFollowsCredits ==
  /\ [](\A invoice_id \in DOMAIN invoices :
          /\ credits = <<>> => outstanding_balance(invoice_id) = invoices[invoice_id].bill_amount
          /\ is_paid(invoice_id) <=> outstanding_balance(invoice_id) <= 0)
  /\ [][\A invoice_id \in DOMAIN invoices :
          outstanding_balance(invoice_id)' =
            IF /\ request'.endpoint = "new_credit" /\ request'.outcome = "view_invoice"
               /\ request'.bill_id = invoice_id
            THEN outstanding_balance(invoice_id) - request'.form
            ELSE outstanding_balance(invoice_id)]_vars

\* An invoice of 10000.00 is paid with two credits of 5000.00 while the
\* other invoice, with one credit, is not.
C21_PaidInTwo ==
  /\ Len(credits) = 3
  /\ invoices[1].bill_amount = 1000000 /\ invoices[2].bill_amount = 1000000
  /\ total_credits(1) = 1000000 /\ is_paid(1)
  /\ outstanding_balance(2) = 500000 /\ ~is_paid(2)

\* C22: after create_tables a committed user with role admin exists.
C22_AdminPersisted ==
  request.endpoint = "create_tables" => HasRole(user_table, "admin")


\* C23: for a bill whose verification_status is rejected, approve, correct
\* and re-verification are carried out as for any other bill: approve and
\* correct leave it verified, re-verification leaves it verified or
\* discrepancy_found with the submitted fields saved.
C23_RejectedNotLocked ==
  [][\A bill_id \in DOMAIN bills :
       (/\ request'.bill_id = bill_id
        /\ bills[bill_id].verification_status = "rejected") =>
         /\ (/\ request'.endpoint = "verify_ocr_bill_final"
             /\ request'.form.action \in {Some("approve"), Some("correct")})
              => /\ bills'[bill_id].verification_status = "verified"
                 /\ request'.outcome \in {"Verified", "Corrected"}
         /\ (/\ request'.endpoint = "verify_bill_by_id"
             /\ activity_log' # activity_log)
              => /\ bills'[bill_id].verification_status \in {"verified", "discrepancy_found"}
                 /\ bills'[bill_id].verification_status = request'.outcome
                 /\ bills'[bill_id].amount = ParseFloat(request'.form.amount)[1]
                 /\ bills'[bill_id].is_verified]_vars

\* A bill that was rejected has been re-verified since and is verified or
\* has a discrepancy.
C23_ReverifiedAfterReject ==
  /\ request.endpoint = "verify_bill_by_id"
  /\ ocr_verification_log # <<>>
  /\ ocr_verification_log[Len(ocr_verification_log)].status = "Rejected"
  /\ ocr_verification_log[Len(ocr_verification_log)].bill_id = request.bill_id
  /\ bills[request.bill_id].verification_status \in {"verified", "discrepancy_found"}

\* C24: every re-verification that commits appends exactly one OCRAuditLog
\* entry of type re_verification for the bill.
C24_ReverificationLogged ==
  [][(request'.endpoint = "verify_bill_by_id" /\ activity_log' # activity_log) =>
       /\ Len(ocr_audit_log') = Len(ocr_audit_log) + 1
       /\ SubSeq(ocr_audit_log', 1, Len(ocr_audit_log)) = ocr_audit_log
       /\ ocr_audit_log'[Len(ocr_audit_log')].verification_type = "re_verification"
       /\ ocr_audit_log'[Len(ocr_audit_log')].bill_id = request'.bill_id]_vars

\* C29: for every bill, verification_status is verified exactly when status
\* is verified, and is_verified is true then.
C29_FieldsAgree ==
  \A bill_id \in DOMAIN bills :
    /\ bills[bill_id].verification_status = "verified" <=> bills[bill_id].status = "verified"
    /\ bills[bill_id].verification_status = "verified" => bills[bill_id].is_verified


\* C30: after a bill is saved through verify_ocr_bill no OCR data of the
\* upload remains in the session, and a verify_ocr_bill without a new upload
\* creates no OCRVendorLinkLog row.
C30_SessionCleared ==
  /\ []((request.endpoint = "verify_ocr_bill" /\ request.outcome = "saved") =>
          /\ session.temp_bill_file = None
          /\ session.ocr_extracted_text = None
          /\ session.ocr_confidence = None
          /\ session.ocr_parsed_data = None
          /\ session.ocr_vendor_name = None
          /\ session.ocr_vendor_match = None)
  /\ [][(/\ request'.endpoint = "verify_ocr_bill" /\ request'.outcome = "saved"
         /\ session.temp_bill_file = None)
          => ocr_vendor_link_log' = ocr_vendor_link_log]_vars

====
